---- MODULE Spec2Model ----
(***************************************************************************)
(* Model of libraries/svg_builder.py: the SVGBuilder document builder, its *)
(* Group tree, the serializer and the schematic layout compositor.         *)
(*                                                                         *)
(* Lengths are integers in tenths of a millimetre (or tenths of a user     *)
(* unit for foreign fragments), so 10 mm is written 100.  A Python dict is *)
(* a sequence of <<key, value>> pairs with distinct keys, in insertion     *)
(* order.  A Python string holding markup is a record that names the tag,  *)
(* the attributes it prints, in order, and its text content; a multi-line  *)
(* string is a sequence of lines, each with its indentation.               *)
(***************************************************************************)
EXTENDS Integers, Sequences, FiniteSets, TLC

VARIABLES elements, heap, current_group, width, height, default_styles,
          hershey_font, opened, ret, walk

vars == <<elements, heap, current_group, width, height, default_styles,
          hershey_font, opened, ret, walk>>

(* ---------------------------- bounds ----------------------------------- *)
MaxGroups == 2
MaxItems == 2
\* longest text content handed to text() and title()
MaxLen == 2
\* most commands in the path data that is walked
MaxCommands == 2

(* ------------------------ generic helpers ------------------------------ *)
RECURSIVE SeqSum(_)
SeqSum(s) == IF s = <<>> THEN 0 ELSE Head(s) + SeqSum(Tail(s))

Min(a, b) == IF a <= b THEN a ELSE b
Max(a, b) == IF a >= b THEN a ELSE b

(* --------------------------- Python dict ------------------------------- *)
Keys(d) == {d[i][1] : i \in 1..Len(d)}
Get(d, k) == d[CHOOSE i \in 1..Len(d) : d[i][1] = k][2]

\* {**a, **b}: the keys of a in a's order, the value taken from b where b
\* has the key, then the keys only b has, in b's order.
DictMerge(a, b) ==
    [i \in 1..Len(a) |->
        IF a[i][1] \in Keys(b) THEN <<a[i][1], Get(b, a[i][1])>> ELSE a[i]]
    \o SelectSeq(b, LAMBDA p : p[1] \notin Keys(a))

(* --------------------------- the objects ------------------------------- *)
\* An attribute value: a text, or the numbers that were formatted into it,
\* or (path data, point lists) the words it is made of.  An attribute is the
\* pair <<name, value>> when it is written name="value" and the triple
\* <<name, value, "'">> when it is written name='value'.
Txt(v) == [s |-> v, n |-> <<>>, t |-> <<>>]
Num(x) == [s |-> "", n |-> <<x>>, t |-> <<>>]
Nums(kind, xs) == [s |-> kind, n |-> xs, t |-> <<>>]
Words(ws) == [s |-> "", n |-> <<>>, t |-> ws]
SingleQuoted(name, value) == <<name, value, "'">>

\* The characters of a word: a letter (or other sign), or a run of digits
\* with its sign and decimal point, kept as the number it spells.
Letter(c) == [v |-> 0, c |-> c]
Digits(v) == [v |-> v, c |-> ""]

\* A markup string held in an element list: <tag attrs>content</tag>, attrs
\* being the attributes in the order they are printed.
Str(tag, attrs, content) ==
    [kind |-> "str", tag |-> tag, attrs |-> attrs, content |-> content,
     inner |-> <<>>, ref |-> 0]
\* A string of foreign markup: the tags it holds, in order.
RawMarkup(tags) ==
    [kind |-> "str", tag |-> "raw", attrs |-> <<>>, content |-> <<>>,
     inner |-> tags, ref |-> 0]
\* One tag of foreign markup.
Tag(tag, attrs) == [tag |-> tag, attrs |-> attrs, content |-> <<>>]
\* A reference to a Group object held in an element list.
GroupRef(g) ==
    [kind |-> "group", tag |-> "g", attrs |-> <<>>, content |-> <<>>,
     inner |-> <<>>, ref |-> g]

\* Group.__init__
Group(attrs, parent) == [elements |-> <<>>, attrs |-> attrs, parent |-> parent]

\* Group.add_element, on the Group object at address g of heap h
Group_add_element(h, g, element) ==
    [h EXCEPT ![g].elements = Append(@, element)]

\* The SVGBuilder object and the Group objects it reaches, as one value.
Self ==
    [elements |-> elements, heap |-> heap, current_group |-> current_group,
     width |-> width, height |-> height, default_styles |-> default_styles,
     hershey_font |-> hershey_font, opened |-> opened]

Commit(s) ==
    /\ elements' = s.elements
    /\ heap' = s.heap
    /\ current_group' = s.current_group
    /\ width' = s.width
    /\ height' = s.height
    /\ default_styles' = s.default_styles
    /\ hershey_font' = s.hershey_font
    /\ opened' = s.opened
    /\ walk' = walk

(* ------------------------ SVGBuilder methods --------------------------- *)
\* _format_attrs: the attribute string, as the pairs it prints in order
_format_attrs_defaults_win(s, attrs) == DictMerge(attrs, s.default_styles)
_format_attrs(s, attrs) == DictMerge(s.default_styles, attrs)

_add_element_to_root(s, element) ==
    [s EXCEPT !.elements = Append(@, element)]
_add_element(s, element) ==
    IF s.current_group # 0
    THEN [s EXCEPT !.heap = Group_add_element(@, s.current_group, element)]
    ELSE [s EXCEPT !.elements = Append(@, element)]

\* _escape_xml: five str.replace passes, in this order
RECURSIVE str_replace(_, _, _)
str_replace(text, char, replacement) ==
    IF text = <<>> THEN <<>>
    ELSE (IF Head(text) = char THEN replacement ELSE <<Head(text)>>)
         \o str_replace(Tail(text), char, replacement)

\* the replacements in another order: '&' last
_escape_xml_amp_last(content) ==
    str_replace(
        str_replace(
            str_replace(
                str_replace(
                    str_replace(content, "<", <<"&", "l", "t", ";">>),
                    ">", <<"&", "g", "t", ";">>),
                "\"", <<"&", "q", "u", "o", "t", ";">>),
            "'", <<"&", "a", "p", "o", "s", ";">>),
        "&", <<"&", "a", "m", "p", ";">>)
_escape_xml(text) ==
    LET r1 == str_replace(text, "&", <<"&", "a", "m", "p", ";">>)
        r2 == str_replace(r1, "<", <<"&", "l", "t", ";">>)
        r3 == str_replace(r2, ">", <<"&", "g", "t", ";">>)
        r4 == str_replace(r3, "\"", <<"&", "q", "u", "o", "t", ";">>)
        r5 == str_replace(r4, "'", <<"&", "a", "p", "o", "s", ";">>)
    IN r5

rect(s, x, y, w, h, attrs) ==
    _add_element(s, Str("rect",
        <<<<"x", Num(x)>>, <<"y", Num(y)>>, <<"width", Num(w)>>,
          <<"height", Num(h)>>>> \o _format_attrs(s, attrs), <<>>))

title(s, content, attrs) ==
    _add_element(s, Str("title", <<>>, _escape_xml(content)))

text(s, x, y, content, attrs) ==
    _add_element(s, Str("text",
        <<<<"x", Num(x)>>, <<"y", Num(y)>>>> \o _format_attrs(s, attrs),
        _escape_xml(content)))

line(s, x1, y1, x2, y2, attrs) ==
    _add_element(s, Str("line",
        <<<<"x1", Num(x1)>>, <<"y1", Num(y1)>>, <<"x2", Num(x2)>>,
          <<"y2", Num(y2)>>>> \o _format_attrs(s, attrs), <<>>))

circle(s, cx, cy, r, attrs) ==
    _add_element(s, Str("circle",
        <<<<"cx", Num(cx)>>, <<"cy", Num(cy)>>, <<"r", Num(r)>>>>
        \o _format_attrs(s, attrs), <<>>))

ellipse(s, cx, cy, rx, ry, attrs) ==
    _add_element(s, Str("ellipse",
        <<<<"cx", Num(cx)>>, <<"cy", Num(cy)>>, <<"rx", Num(rx)>>,
          <<"ry", Num(ry)>>>> \o _format_attrs(s, attrs), <<>>))

\* "M" + " L".join(f"{x},{y}" ...): the words Mx0 y0 Lx1 y1 ... of the
\* polyline through the flat coordinate list d = x0, y0, x1, y1, ...
PathData(d) ==
    Words([k \in 1..Len(d) |->
             IF k % 2 = 0 THEN <<Digits(d[k])>>
             ELSE <<Letter(IF k = 1 THEN "M" ELSE "L"), Digits(d[k])>>])
path(s, d, attrs) ==
    _add_element(s, Str("path",
        <<<<"d", PathData(d)>>>> \o _format_attrs(s, attrs), <<>>))

\* opened is a history variable, not a field of the object: the frames that
\* were current before each begin_group that has not been ended yet.
Push(st, f) == Append(st, f)
Pop(st) == IF st = <<>> THEN st ELSE SubSeq(st, 1, Len(st) - 1)

begin_group_detached(s, attrs) ==
    LET g == Len(s.heap) + 1
    IN [s EXCEPT !.heap = Append(s.heap, Group(attrs, s.current_group)),
                 !.current_group = g,
                 !.opened = Push(@, s.current_group)]
begin_group(s, attrs) ==
    LET g == Len(s.heap) + 1
        h1 == Append(s.heap, Group(attrs, s.current_group))
    IN IF s.current_group # 0
       THEN [s EXCEPT !.heap = Group_add_element(h1, s.current_group, GroupRef(g)),
                      !.current_group = g,
                      !.opened = Push(@, s.current_group)]
       ELSE [s EXCEPT !.heap = h1,
                      !.elements = Append(@, GroupRef(g)),
                      !.current_group = g,
                      !.opened = Push(@, s.current_group)]

end_group_to_root(s) == [s EXCEPT !.current_group = 0, !.opened = Pop(@)]
end_group(s) ==
    IF s.current_group # 0 /\ s.heap[s.current_group].parent # 0
    THEN [s EXCEPT !.current_group = s.heap[s.current_group].parent,
                   !.opened = Pop(@)]
    ELSE [s EXCEPT !.current_group = 0, !.opened = Pop(@)]

(* --------------------------- serialization ----------------------------- *)
\* One line of output text: indent spaces, then the markup.
TextLine(indent, kind, tag, attrs, content) ==
    [kind |-> kind, tag |-> tag, attrs |-> attrs, content |-> content,
     inner |-> <<>>, indent |-> indent]

StrLine(el) ==
    [TextLine(0, "str", el.tag, el.attrs, el.content) EXCEPT !.inner = el.inner]
BlankLine == TextLine(0, "blank", "", <<>>, <<>>)

\* prefix + text.replace('\n', '\n' + prefix): every line moves right
Indent(lines, n) ==
    [i \in 1..Len(lines) |-> [lines[i] EXCEPT !.indent = @ + n]]

\* '\n'.join(parts): the lines of the parts, one empty line when there is
\* no part
RECURSIVE Concat(_)
Concat(parts) ==
    IF parts = <<>> THEN <<>> ELSE Head(parts) \o Concat(Tail(parts))
Join(parts) == IF parts = <<>> THEN <<BlankLine>> ELSE Concat(parts)

\* Group.to_string of the Group at address g
RECURSIVE Group_to_string(_, _)
Group_to_string(h, g) ==
    LET grp == h[g]
        elements_str == Join(
            [i \in 1..Len(grp.elements) |->
                IF grp.elements[i].kind = "str"
                THEN Indent(<<StrLine(grp.elements[i])>>, 4)
                ELSE Indent(Group_to_string(h, grp.elements[i].ref), 4)])
    IN <<TextLine(2, "open", "g", grp.attrs, <<>>)>>
       \o elements_str
       \o <<TextLine(2, "close", "g", <<>>, <<>>)>>

SvgTag(w, h) ==
    TextLine(0, "svg", "svg",
         <<<<"xmlns", Txt("http://www.w3.org/2000/svg")>>,
           <<"width", Nums("mm", <<w>>)>>, <<"height", Nums("mm", <<h>>)>>,
           <<"viewBox", Nums("", <<0, 0, w, h>>)>>>>, <<>>)
Prolog == TextLine(0, "prolog", "xml", <<>>, <<>>)
EndSvg == TextLine(0, "endsvg", "svg", <<>>, <<>>)

\* SVGBuilder.to_string: the builder as the call leaves it, and the text
to_string_root_only(s) ==
    [self |-> s,
     out |-> <<Prolog, SvgTag(s.width, s.height)>>
             \o Join([i \in 1..Len(s.elements) |->
                        IF s.elements[i].kind = "str"
                        THEN <<StrLine(s.elements[i])>>
                        ELSE <<TextLine(2, "open", "g",
                                    s.heap[s.elements[i].ref].attrs, <<>>),
                               TextLine(2, "close", "g", <<>>, <<>>)>>])
             \o <<EndSvg>>]
to_string_closing(s) ==
    [self |-> [s EXCEPT !.current_group = 0],
     out |-> <<Prolog, SvgTag(s.width, s.height)>>
             \o Join([i \in 1..Len(s.elements) |->
                        IF s.elements[i].kind = "str"
                        THEN <<StrLine(s.elements[i])>>
                        ELSE Group_to_string(s.heap, s.elements[i].ref)])
             \o <<EndSvg>>]
to_string(s) ==
    [self |-> s,
     out |-> <<Prolog, SvgTag(s.width, s.height)>>
             \o Join([i \in 1..Len(s.elements) |->
                        IF s.elements[i].kind = "str"
                        THEN <<StrLine(s.elements[i])>>
                        ELSE Group_to_string(s.heap, s.elements[i].ref)])
             \o <<EndSvg>>]

(* ---------------------- calculate_bounding_box ------------------------- *)
\* re.search(name + '="([^"]*)"', attrs) finds the first attribute written
\* with double quotes whose printed name ends with name.
EndsWith(key, name) ==
    \/ key = name
    \/ name = "x" /\ key \in {"cx", "rx"}
    \/ name = "y" /\ key \in {"cy", "ry"}
    \/ name = "width" /\ key = "stroke-width"
    \/ name = "d" /\ key = "id"

Matches(p, name) == Len(p) = 2 /\ EndsWith(p[1], name)

HasAttr(attrs, name) == \E i \in 1..Len(attrs) : Matches(attrs[i], name)
FirstAttr(attrs, name) ==
    attrs[CHOOSE i \in 1..Len(attrs) :
            /\ Matches(attrs[i], name)
            /\ \A j \in 1..(i - 1) : ~Matches(attrs[j], name)][2]

None == [v |-> 0, ok |-> FALSE]
Some(v) == [v |-> v, ok |-> TRUE]

\* parse_float: a number with an optional unit suffix parses, a text does not
parse_float(value) ==
    IF Len(value.n) = 1 /\ value.s \in {"", "mm", "px", "%"}
    THEN Some(value.n[1]) ELSE None

\* parse_float of a word: re.sub(r'[a-z%]+$', '', word), then float().  Only
\* a single run of digits is a number here (exponents are not written).
lower_case ==
    {"a", "b", "c", "d", "e", "f", "g", "h", "i", "j", "k", "l", "m", "n",
     "o", "p", "q", "r", "s", "t", "u", "v", "w", "x", "y", "z", "%"}

RECURSIVE StripUnits(_)
StripUnits(run) ==
    IF run # <<>> /\ run[Len(run)].c \in lower_case
    THEN StripUnits(SubSeq(run, 1, Len(run) - 1))
    ELSE run

parse_float_word(run) ==
    IF Len(StripUnits(run)) = 1 /\ StripUnits(run)[1].c = ""
    THEN Some(StripUnits(run)[1].v) ELSE None

\* parse_float(re.search(...).group(1) if re.search(...) else 0)
AttrFloat(attrs, name) ==
    IF HasAttr(attrs, name) THEN parse_float(FirstAttr(attrs, name))
    ELSE Some(0)

\* The running box: hx / hy are FALSE while min_x / min_y are still +inf.
InfBox ==
    [hx |-> FALSE, min_x |-> 0, max_x |-> 0,
     hy |-> FALSE, min_y |-> 0, max_y |-> 0, raised |-> FALSE]

update_bbox(bb, x, y) ==
    LET b1 == IF x.ok
              THEN [bb EXCEPT !.hx = TRUE,
                              !.min_x = IF bb.hx THEN Min(@, x.v) ELSE x.v,
                              !.max_x = IF bb.hx THEN Max(@, x.v) ELSE x.v]
              ELSE bb
    IN IF y.ok
       THEN [b1 EXCEPT !.hy = TRUE,
                       !.min_y = IF bb.hy THEN Min(@, y.v) ELSE y.v,
                       !.max_y = IF bb.hy THEN Max(@, y.v) ELSE y.v]
       ELSE b1

\* a + b on parsed values; None in an addition is a TypeError
Raise(bb) == [bb EXCEPT !.raised = TRUE]
Plus(a, b) == Some(a.v + b.v)
Minus(a, b) == Some(a.v - b.v)

\* The words of an attribute value: of path data, of a number, of a text.
ValueWords(value) ==
    IF value.t # <<>> THEN value.t
    ELSE IF value.n # <<>>
    THEN [k \in 1..Len(value.n) |-> <<Digits(value.n[k])>>]
    ELSE IF value.s = "" THEN <<>>
    ELSE <<<<Letter(value.s)>>>>

\* parse_points: the coordinates pair up; a pair counts when both parse
RECURSIVE PointsWalk(_, _)
PointsWalk(bb, coordinates) ==
    IF Len(coordinates) < 2 THEN bb
    ELSE PointsWalk(
            IF coordinates[1].ok /\ coordinates[2].ok
            THEN update_bbox(bb, coordinates[1], coordinates[2])
            ELSE bb,
            SubSeq(coordinates, 3, Len(coordinates)))

parse_points(bb, words) ==
    PointsWalk(bb, [k \in 1..Len(words) |-> parse_float_word(words[k])])

(* path data *)
path_commands ==
    {"M", "L", "H", "V", "Z", "C", "S", "T", "Q", "A",
     "m", "l", "h", "v", "z", "c", "s", "t", "q", "a"}

\* A token of the normalized path data: a command letter, or the characters
\* between two command letters or separators (no token when there are none).
CmdToken(c) == [run |-> <<>>, cmd |-> c]
RunToken(run) ==
    IF run = <<>> THEN <<>> ELSE <<[run |-> run, cmd |-> ""]>>

\* re.sub puts spaces around every command letter, also inside a word
RECURSIVE WordTokens(_, _)
WordTokens(word, run) ==
    IF word = <<>> THEN RunToken(run)
    ELSE IF Head(word).c \in path_commands
    THEN RunToken(run) \o <<CmdToken(Head(word).c)>>
         \o WordTokens(Tail(word), <<>>)
    ELSE WordTokens(Tail(word), Append(run, Head(word)))

Tokenize(words) == Concat([k \in 1..Len(words) |-> WordTokens(words[k], <<>>)])

parse_float_token(token) ==
    IF token.cmd # "" THEN None ELSE parse_float_word(token.run)

\* The walk over the tokens: position i, current command, current point
\* (x, y): a coordinate is None after an absolute command stored an
\* unparseable operand), the running box, and whether a TypeError was raised,
\* which the outer except swallows and which ends the walk of this path.
Stop(st) == [st EXCEPT !.stop = TRUE]
\* the index left where it is
Advance_stuck(st, n) == st
Advance(st, n) == IF st.stop THEN st ELSE [st EXCEPT !.i = @ + n]

\* update_bbox(x1, y1)
AbsUpdate(st, x1, y1) ==
    IF st.stop THEN st ELSE [st EXCEPT !.bb = update_bbox(@, x1, y1)]
\* update_bbox(x + x1, y + y1)
RelUpdate(st, x1, y1) ==
    IF st.stop THEN st
    ELSE IF st.x.ok /\ x1.ok /\ st.y.ok /\ y1.ok
    THEN [st EXCEPT !.bb = update_bbox(@, Plus(st.x, x1), Plus(st.y, y1))]
    ELSE Stop(st)
\* x = x_val; y = y_val
AbsMove(st, x_val, y_val) ==
    IF st.stop THEN st ELSE [st EXCEPT !.x = x_val, !.y = y_val]
\* a relative end point taken as an absolute one
RelMove_absolute(st, x_val, y_val) ==
    IF st.stop THEN st ELSE [st EXCEPT !.x = x_val, !.y = y_val]
\* x += x_val; y += y_val
RelMove(st, x_val, y_val) ==
    IF st.stop THEN st
    ELSE IF st.x.ok /\ x_val.ok /\ st.y.ok /\ y_val.ok
    THEN [st EXCEPT !.x = Plus(@, x_val), !.y = Plus(@, y_val)]
    ELSE Stop(st)
\* update_bbox(x, y)
Here(st) == AbsUpdate(st, st.x, st.y)

\* M, m, L, l: the point moves only when both operands parse
MoveLine(st, relative, x_val, y_val) ==
    Advance(IF x_val.ok /\ y_val.ok
            THEN Here(IF relative THEN RelMove(st, x_val, y_val)
                      ELSE AbsMove(st, x_val, y_val))
            ELSE st, 2)

\* H, h
HorizontalTo(st, relative, x_val) ==
    Advance(IF ~x_val.ok THEN st
            ELSE IF ~relative THEN Here([st EXCEPT !.x = x_val])
            ELSE IF st.x.ok THEN Here([st EXCEPT !.x = Plus(@, x_val)])
            ELSE Stop(st), 1)
\* V, v
VerticalTo(st, relative, y_val) ==
    Advance(IF ~y_val.ok THEN st
            ELSE IF ~relative THEN Here([st EXCEPT !.y = y_val])
            ELSE IF st.y.ok THEN Here([st EXCEPT !.y = Plus(@, y_val)])
            ELSE Stop(st), 1)

\* C, S, Q, T, A: the control points, then the end point, none of them
\* tested for None
\* only the end point stored
Controls_skipped(st, relative, points) == st
RECURSIVE Controls(_, _, _)
Controls(st, relative, points) ==
    IF points = <<>> THEN st
    ELSE Controls(IF relative
                  THEN RelUpdate(st, points[1][1], points[1][2])
                  ELSE AbsUpdate(st, points[1][1], points[1][2]),
                  relative, Tail(points))

CurveTo(st, relative, points, x_val, y_val, n) ==
    Advance(Here(IF relative
                 THEN RelMove(Controls(st, relative, points), x_val, y_val)
                 ELSE AbsMove(Controls(st, relative, points), x_val, y_val)),
            n)

\* One turn of the while loop of lines 783-963.
PathStep(tokens, st) ==
    LET n == Len(tokens)
        i == st.i
        cmd == st.cmd
        P(k) == parse_float_token(tokens[i + k])
    IN IF tokens[i].cmd # ""
       THEN [st EXCEPT !.cmd = tokens[i].cmd, !.i = i + 1]
       ELSE IF cmd \in {"M", "m"} /\ i + 1 <= n
       THEN MoveLine(st, cmd = "m", P(0), P(1))
       ELSE IF cmd \in {"L", "l"} /\ i + 1 <= n
       THEN MoveLine(st, cmd = "l", P(0), P(1))
       ELSE IF cmd \in {"H", "h"} THEN HorizontalTo(st, cmd = "h", P(0))
       ELSE IF cmd \in {"V", "v"} THEN VerticalTo(st, cmd = "v", P(0))
       ELSE IF cmd \in {"C", "c"} /\ i + 5 <= n
       THEN CurveTo(st, cmd = "c", <<<<P(0), P(1)>>, <<P(2), P(3)>>>>,
                    P(4), P(5), 6)
       ELSE IF cmd \in {"S", "s"} /\ i + 3 <= n
       THEN CurveTo(st, cmd = "s", <<<<P(0), P(1)>>>>, P(2), P(3), 4)
       ELSE IF cmd \in {"Q", "q"} /\ i + 3 <= n
       THEN CurveTo(st, cmd = "q", <<<<P(0), P(1)>>>>, P(2), P(3), 4)
       ELSE IF cmd \in {"T", "t"} /\ i + 1 <= n
       THEN CurveTo(st, cmd = "t", <<>>, P(0), P(1), 2)
       ELSE IF cmd \in {"A", "a"} /\ i + 6 <= n
       THEN CurveTo(st, cmd = "a", <<>>, P(5), P(6), 7)
       ELSE Advance(st, 1)

RECURSIVE PathWalk(_, _)
PathWalk(tokens, st) ==
    IF st.stop \/ st.i > Len(tokens) THEN st.bb
    ELSE PathWalk(tokens, PathStep(tokens, st))

\* Lines 770-782: no token, no walk; a first token that is no command letter
\* starts an implicit M.
FirstTurn(bb, tokens) ==
    [i |-> 1, x |-> Some(0), y |-> Some(0), bb |-> bb,
     cmd |-> IF tokens # <<>> /\ tokens[1].cmd = "" THEN "M" ELSE "",
     stop |-> FALSE]
StartWalk(bb, tokens) ==
    IF tokens = <<>> THEN bb ELSE PathWalk(tokens, FirstTurn(bb, tokens))

\* A walk in progress, turn by turn: the tokens, the loop's variables, the
\* number of turns taken.  NoWalk: no path is being walked.
NoWalk ==
    [n |-> 0, st |-> FirstTurn(InfBox, <<>>), tokens |-> <<>>, phase |-> "idle"]

path_box(bb, d) == StartWalk(bb, Tokenize(ValueWords(d)))

\* The contribution of one tag to the running box.
ElementBox(bb, el) ==
    LET a == el.attrs IN
    IF bb.raised THEN bb
    ELSE IF el.tag = "rect" /\ a # <<>> THEN
        LET x == AttrFloat(a, "x")
            y == AttrFloat(a, "y")
            w == AttrFloat(a, "width")
            h == AttrFloat(a, "height")
        IN IF w.ok /\ h.ok
           THEN IF x.ok /\ y.ok
                THEN update_bbox(update_bbox(bb, x, y), Plus(x, w), Plus(y, h))
                ELSE Raise(bb)
           ELSE bb
    ELSE IF el.tag = "circle" /\ a # <<>> THEN
        LET cx == AttrFloat(a, "cx")
            cy == AttrFloat(a, "cy")
            r == AttrFloat(a, "r")
        IN IF cx.ok /\ cy.ok /\ r.ok
           THEN update_bbox(update_bbox(bb, Minus(cx, r), Minus(cy, r)),
                            Plus(cx, r), Plus(cy, r))
           ELSE bb
    ELSE IF el.tag = "ellipse" /\ a # <<>> THEN
        LET cx == AttrFloat(a, "cx")
            cy == AttrFloat(a, "cy")
            rx == AttrFloat(a, "rx")
            ry == AttrFloat(a, "ry")
        IN IF cx.ok /\ cy.ok /\ rx.ok /\ ry.ok
           THEN update_bbox(update_bbox(bb, Minus(cx, rx), Minus(cy, ry)),
                            Plus(cx, rx), Plus(cy, ry))
           ELSE bb
    ELSE IF el.tag = "line" /\ a # <<>> THEN
        update_bbox(update_bbox(bb, AttrFloat(a, "x1"), AttrFloat(a, "y1")),
                    AttrFloat(a, "x2"), AttrFloat(a, "y2"))
    ELSE IF el.tag \in {"polyline", "polygon"} /\ HasAttr(a, "points") THEN
        parse_points(bb, ValueWords(FirstAttr(a, "points")))
    ELSE IF el.tag = "text" /\ a # <<>> THEN
        LET x == AttrFloat(a, "x")
            y == AttrFloat(a, "y")
            b1 == update_bbox(bb, x, y)
        IN IF el.content # <<>>
           THEN IF x.ok /\ y.ok
                THEN update_bbox(b1, Some(x.v + Len(el.content) * 80),
                                 Some(y.v + 100))
                ELSE Raise(bb)
           ELSE b1
    ELSE IF el.tag = "path" /\ HasAttr(a, "d") THEN
        path_box(bb, FirstAttr(a, "d"))
    ELSE bb

RECURSIVE ElementsBox(_, _)
ElementsBox(bb, els) ==
    IF els = <<>> THEN bb
    ELSE ElementsBox(ElementBox(bb, Head(els)), Tail(els))

\* svg_content: [matched, viewBox, inner]: whether <svg ...>...</svg> is
\* there, its viewBox attribute, the tags inside.  The viewBox attribute is
\* its numbers and what separates them: " ", "," or ", ".
NoViewBox == [n |-> <<>>, sep |-> ""]
ViewBox(sep, n) == [n |-> n, sep |-> sep]
Svg(viewBox, inner) == [inner |-> inner, viewBox |-> viewBox, matched |-> TRUE]
NoSvg == [inner |-> <<>>, viewBox |-> NoViewBox, matched |-> FALSE]


BBox(min_x, max_x, min_y, max_y, raised) ==
    [width |-> max_x - min_x, height |-> max_y - min_y, min_x |-> min_x, max_x |-> max_x,
     min_y |-> min_y, max_y |-> max_y, raised |-> raised]

\* Lines 970-994: viewbox.split() and float() of each part give the
\* rectangle when there are four parts and each is a number ("0," is not);
\* all zeros otherwise.
viewbox_rect(vb) ==
    IF vb.sep = " " /\ Len(vb.n) = 4
    THEN BBox(vb.n[1], vb.n[1] + vb.n[3], vb.n[2], vb.n[2] + vb.n[4], FALSE)
    ELSE BBox(0, 0, 0, 0, FALSE)

\* The box returned for the running box bb: the viewBox, or zeros, stand in
\* when no element gave an x or none gave a y.
bounding_box_result(bb, vb) ==
    IF bb.raised THEN BBox(0, 0, 0, 0, TRUE)
    ELSE IF ~bb.hx \/ ~bb.hy THEN viewbox_rect(vb)
    ELSE BBox(bb.min_x, bb.max_x, bb.min_y, bb.max_y, FALSE)

calculate_bounding_box(svg_content) ==
    IF ~svg_content.matched THEN BBox(0, 0, 0, 0, FALSE)
    ELSE bounding_box_result(ElementsBox(InfBox, svg_content.inner),
                             svg_content.viewBox)

(* ----------------------------- Hershey text ---------------------------- *)
\* HersheyFonts.lines_for_text: one two-point stroke per character, the
\* i-th character 100 units to the right of the one before; the space has
\* no stroke.
lines_for_text(content) ==
    SelectSeq([i \in 1..Len(content) |->
                 IF content[i] = " " THEN <<>>
                 ELSE <<(i - 1) * 100, 0, i * 100, 200>>],
              LAMBDA l : l # <<>>)

\* Lines 116-122: min and max over the points of every stroke.
RECURSIVE StrokesBox(_, _)
StrokesBox(bb, strokes) ==
    IF strokes = <<>> THEN bb
    ELSE StrokesBox(
            IF Head(strokes) # <<>>
            THEN update_bbox(update_bbox(bb, Some(Head(strokes)[1]),
                                         Some(Head(strokes)[2])),
                             Some(Head(strokes)[3]), Some(Head(strokes)[4]))
            ELSE bb,
            Tail(strokes))

\* Lines 124-141: zeros when no point was seen.
hershey_box(bb) ==
    IF ~bb.hx THEN BBox(0, 0, 0, 0, FALSE)
    ELSE BBox(bb.min_x, bb.max_x, bb.min_y, bb.max_y, FALSE)

\* self.hershey_font is None and its method is called: AttributeError
get_hershey_text_bounding_box_unguarded(s, content) ==
    IF ~s.hershey_font THEN BBox(0, 0, 0, 0, TRUE)
    ELSE hershey_box(StrokesBox(InfBox, lines_for_text(content)))
get_hershey_text_bounding_box(s, content) ==
    IF ~s.hershey_font THEN BBox(0, 0, 0, 0, FALSE)
    ELSE hershey_box(StrokesBox(InfBox, lines_for_text(content)))

default_hershey_attrs ==
    <<<<"fill", Txt("none")>>, <<"stroke", Txt("black")>>,
      <<"stroke-width", Txt("1")>>>>

RECURSIVE AddPaths(_, _, _)
AddPaths(s, strokes, attrs) ==
    IF strokes = <<>> THEN s
    ELSE AddPaths(
            IF Head(strokes) # <<>>
            THEN _add_element(s, Str("path",
                    <<<<"d", PathData(Head(strokes))>>>>
                    \o _format_attrs(s, attrs), <<>>))
            ELSE s,
            Tail(strokes), attrs)

hershey_text(s, x, y, content, scale, attrs) ==
    IF ~s.hershey_font THEN s
    ELSE LET merged_attrs == DictMerge(default_hershey_attrs, attrs)
             group_attrs ==
                 <<<<"transform", Nums("translate({},{}) scale({})",
                                       <<x, y, scale>>)>>>>
             s1 == begin_group(s, group_attrs)
             s2 == title(s1, content, <<>>)
             s3 == AddPaths(s2, lines_for_text(content), merged_attrs)
         IN end_group(s3)

default_bbox_attrs ==
    <<<<"fill", Txt("none")>>, <<"stroke", Txt("red")>>,
      <<"stroke-width", Txt("0.5")>>, <<"stroke-dasharray", Txt("2,1")>>,
      <<"opacity", Txt("0.7")>>>>

\* Lines 353-399: the group, the box, its centre mark, the title and the
\* strokes, up to the closing end_group.
hershey_text_with_bbox_body(s, bbox, x, y, content, scale, text_attrs, bbox_attrs) ==
    AddPaths(
        title(circle(rect(begin_group(s,
                            <<<<"transform",
                                Nums("translate({},{}) scale({})",
                                     <<x, y, scale>>)>>>>),
                          bbox.min_x, bbox.min_y, bbox.width, bbox.height,
                          DictMerge(default_bbox_attrs, bbox_attrs)),
                     (bbox.min_x + bbox.max_x) \div 2,
                     (bbox.min_y + bbox.max_y) \div 2, 5,
                     <<<<"fill", Txt("red")>>, <<"stroke", Txt("none")>>>>),
              content \o <<" ", "(", "w", "i", "t", "h", " ", "b", "o", "u",
                           "n", "d", "i", "n", "g", " ", "b", "o", "x", ")">>,
              <<>>),
        lines_for_text(content),
        DictMerge(default_hershey_attrs, text_attrs))

hershey_text_with_bbox_unclosed(s, x, y, content, scale, text_attrs, bbox_attrs) ==
    IF ~s.hershey_font THEN s
    ELSE hershey_text_with_bbox_body(s,
            get_hershey_text_bounding_box(s, content),
            x, y, content, scale, text_attrs, bbox_attrs)
hershey_text_with_bbox(s, x, y, content, scale, text_attrs, bbox_attrs) ==
    IF ~s.hershey_font THEN s
    ELSE end_group(hershey_text_with_bbox_body(s,
            get_hershey_text_bounding_box(s, content),
            x, y, content, scale, text_attrs, bbox_attrs))

(* ------------------------- extract_svg_contents ------------------------ *)
stroke_attributes ==
    {"stroke-width", "stroke", "stroke-opacity", "stroke-dasharray",
     "stroke-dashoffset", "stroke-linecap", "stroke-linejoin",
     "stroke-miterlimit"}

\* re.sub(r'\s<key>="[^"]*"', '', ...): only an attribute written with double
\* quotes goes
RemoveKeys(attrs, keys) ==
    SelectSeq(attrs, LAMBDA p : ~(Len(p) = 2 /\ p[1] \in keys))

StripTags(tags) ==
    [i \in 1..Len(tags) |->
        [tags[i] EXCEPT !.attrs = RemoveKeys(@, stroke_attributes)]]

\* extract_svg_contents of a foreign document: its inner markup, cleaned
extract_svg_contents(svg_content) ==
    IF ~svg_content.matched THEN <<>> ELSE StripTags(svg_content.inner)

\* extract_svg_contents of the builder's own output: the lines between the
\* svg tag and its end, cleaned
extract_parent_contents(lines) ==
    LET body == SelectSeq(lines,
                    LAMBDA l : l.kind \notin {"prolog", "svg", "endsvg"})
    IN [i \in 1..Len(body) |->
          [body[i] EXCEPT !.attrs = RemoveKeys(@, stroke_attributes),
                          !.inner = StripTags(@)]]

(* ------------------------------ add_schematic -------------------------- *)
border_inset == 100

\* "Error: Cannot place schematic"
error_marker ==
    <<"E", "r", "r", "o", "r", ":", " ", "C", "a", "n", "n", "o", "t", " ",
      "p", "l", "a", "c", "e", " ", "s", "c", "h", "e", "m", "a", "t", "i",
      "c">>

\* re.search('<g[^>]*id="<id>"[^>]*>.*?</g>'): from the first <g> tag that
\* carries the id to the first </g> after it
HasId(attrs, id) ==
    \E i \in 1..Len(attrs) : attrs[i][1] = "id" /\ attrs[i][2] = Txt(id)
IsOpen(l, id) == l.kind = "open" /\ HasId(l.attrs, id)

GroupMatch(lines, id) ==
    IF \E i \in 1..Len(lines) : IsOpen(lines[i], id)
    THEN LET i == CHOOSE i \in 1..Len(lines) :
                    /\ IsOpen(lines[i], id)
                    /\ \A k \in 1..(i - 1) : ~IsOpen(lines[k], id)
             j == CHOOSE j \in (i + 1)..Len(lines) :
                    /\ lines[j].kind = "close"
                    /\ \A k \in (i + 1)..(j - 1) : lines[k].kind # "close"
         IN SubSeq(lines, i, j)
    ELSE <<>>

\* The tags calculate_bounding_box sees in a run of lines.
RECURSIVE LinesToTags(_)
LinesToTags(lines) ==
    IF lines = <<>> THEN <<>>
    ELSE LET l == Head(lines)
         IN (IF l.kind # "str" THEN <<>>
             ELSE IF l.tag = "raw" THEN l.inner
             ELSE <<[tag |-> l.tag, attrs |-> l.attrs, content |-> l.content]>>)
            \o LinesToTags(Tail(lines))

\* The bottom edge found for the group with this id, 0 when there is none.
BoxBottom(b) == IF b.height > 0 THEN b.min_y + b.height ELSE 0
MatchBottom(m) ==
    IF m = <<>> THEN 0
    ELSE BoxBottom(calculate_bounding_box(Svg(NoViewBox, LinesToTags(m))))
GroupBottom(lines, id) == MatchBottom(GroupMatch(lines, id))

UpperBoundary(lines) ==
    Max(Max(0, GroupBottom(lines, "legend")), GroupBottom(lines, "titles"))

\* format(p / q, '.<k>f') for q > 0, as the integer number of 10^-k units:
\* long division, then round half to even.  The quotient is exact here; a
\* binary float that falls just below a tie prints one unit lower.
RECURSIVE LongDiv(_, _, _, _)
LongDiv(acc, r, q, k) ==
    IF k = 0
    THEN IF 2 * r > q THEN acc + 1
         ELSE IF 2 * r = q THEN acc + (acc % 2)
         ELSE acc
    ELSE LongDiv(acc * 10 + ((10 * r) \div q), (10 * r) % q, q, k - 1)

FmtFixed(p, q, k) ==
    IF p >= 0 THEN LongDiv(p \div q, p % q, q, k)
    ELSE -LongDiv((-p) \div q, (-p) % q, q, k)

elements_with_strokes ==
    {"path", "rect", "circle", "ellipse", "line", "polyline", "polygon"}

remove_style_attr(tag) ==
    IF tag.tag \in elements_with_strokes
    THEN [tag EXCEPT !.attrs = RemoveKeys(@, {"style"})]
    ELSE tag

\* 'stroke=' in attrs: the text stroke= is there, whatever precedes it and
\* whatever quotes follow it
MentionsStroke(attrs) ==
    \E i \in 1..Len(attrs) : attrs[i][1] \in {"stroke", "data-stroke"}

add_stroke_attrs(tag, color) ==
    IF tag.tag \in elements_with_strokes /\ ~MentionsStroke(tag.attrs)
    THEN [tag EXCEPT !.attrs = <<<<"stroke", Txt(color)>>,
                                 <<"stroke-width", Txt("1")>>>> \o @]
    ELSE tag

\* What one call of add_schematic did: the builder it leaves, what it
\* returned or raised, the branch it took and the locals it computed.
Outcome(s, raised, failed, dims, scale, translate) ==
    [value |-> IF raised THEN "exception" ELSE "self", self |-> s,
     raised |-> raised, scale |-> scale, bbox |-> BBox(0, 0, 0, 0, FALSE),
     color |-> "", failed |-> failed,
     dims |-> dims, translate |-> translate, scale_computed |-> scale # <<>>,
     offset |-> <<>>, upper |-> 0, svg |-> NoSvg]

\* The test of line 1148.
InvalidDimensionsBoxOnly(available_width, available_height, bbox) ==
    bbox.width <= 0 \/ bbox.height <= 0
InvalidDimensions(available_width, available_height, bbox) ==
    \/ available_width <= 0 \/ available_height <= 0
    \/ bbox.width <= 0 \/ bbox.height <= 0

\* Lines 1154-1157: scale = min(scale_x, scale_y) * 0.85, as the fraction
\* <<sn, sd>>; scale_x <= scale_y is compared by cross-multiplication.
fit_scale_max(available_width, available_height, bbox) ==
    IF available_width * bbox.height >= available_height * bbox.width
    THEN <<17 * available_width, 20 * bbox.width>>
    ELSE <<17 * available_height, 20 * bbox.height>>
fit_scale(available_width, available_height, bbox) ==
    IF available_width * bbox.height <= available_height * bbox.width
    THEN <<17 * available_width, 20 * bbox.width>>
    ELSE <<17 * available_height, 20 * bbox.height>>

\* Lines 1159-1174: translate = start + (available - size * scale) / 2
\* - min * scale with scale = sn / sd, as the numerators over 2 * sd of what
\* is added to start_x = border_inset and to start_y = upper_boundary.
center_offset_keep_min(available_width, available_height, bbox, sn, sd) ==
    <<available_width * sd - bbox.width * sn,
      available_height * sd - bbox.height * sn>>
center_offset(available_width, available_height, bbox, sn, sd) ==
    <<available_width * sd - bbox.width * sn - 2 * bbox.min_x * sn,
      available_height * sd - bbox.height * sn - 2 * bbox.min_y * sn>>

\* Lines 1153-1222: the schematic fits; scale it, centre it, append it.
place_schematic(s0, inner_content, bbox, upper_boundary, available_width, available_height, color) ==
    LET dims == <<available_width, available_height, bbox.width, bbox.height>>
        scale == fit_scale(available_width, available_height, bbox)
        sn == scale[1]
        sd == scale[2]
        \* translate, printed with two decimals
        offset == center_offset(available_width, available_height, bbox, sn, sd)
        translate_x == 10 * border_inset + FmtFixed(offset[1], 2 * sd, 1)
        translate_y == 10 * upper_boundary + FmtFixed(offset[2], 2 * sd, 1)
        group_attrs ==
            <<<<"transform",
                Nums("translate({:.2f}, {:.2f}) scale({:.4f})",
                     <<translate_x, translate_y, FmtFixed(sn, sd, 4)>>)>>,
              <<"id", Txt("schematic-content")>>>>
        inner ==
            [i \in 1..Len(inner_content) |->
                add_stroke_attrs(remove_style_attr(inner_content[i]), color)]
    IN [Outcome(end_group(_add_element(begin_group(s0, group_attrs),
                                       RawMarkup(inner))),
                FALSE, FALSE, dims, <<sn, sd>>, <<translate_x, translate_y>>)
          EXCEPT !.offset = offset]

\* Lines 1143-1145: the space left on the page, <<width, height>>.
available_area_one_inset(page_width, page_height, upper_boundary) ==
    <<page_width - border_inset, page_height - upper_boundary - border_inset>>
available_area(page_width, page_height, upper_boundary) ==
    <<page_width - 2 * border_inset,
      page_height - upper_boundary - border_inset>>

\* Lines 1143-1151: the space left on the page and the test of it.
fit_schematic(s, s0, inner_content, bbox, upper_boundary, color) ==
    LET available_width ==
            available_area(s0.width, s0.height, upper_boundary)[1]
        available_height ==
            available_area(s0.width, s0.height, upper_boundary)[2]
    IN [(IF bbox.raised THEN Outcome(s, TRUE, FALSE, <<>>, <<>>, <<>>)
         ELSE IF InvalidDimensions(available_width, available_height, bbox)
         THEN Outcome(text(s0, s0.width \div 2, s0.height \div 2,
                           error_marker,
                           <<<<"fill", Txt("red")>>,
                             <<"text-anchor", Txt("middle")>>>>),
                      FALSE, TRUE,
                      <<available_width, available_height,
                        bbox.width, bbox.height>>, <<>>, <<>>)
         ELSE place_schematic(s0, inner_content, bbox, upper_boundary,
                              available_width, available_height, color))
          EXCEPT !.upper = upper_boundary, !.bbox = bbox, !.color = color]

\* Lines 1107-1138: the page so far and the lower edge of its legend and
\* titles.
measure_parent(s, parent_svg, inner_content, bbox, color) ==
    fit_schematic(s, parent_svg.self, inner_content, bbox,
                  UpperBoundary(extract_parent_contents(parent_svg.out)),
                  color)

add_schematic(s, svg_content, color) ==
    [measure_parent(s, to_string(s), extract_svg_contents(svg_content),
                    calculate_bounding_box(svg_content), color)
       EXCEPT !.svg = svg_content]

(* ------------------------ artboard: the blueprint ---------------------- *)
\* components/artboard/helper.py.  Lengths are tenths of a millimetre, text
\* scale factors are hundredths.
PAPER_SIZES(size) ==
    CASE size = "a3" -> <<2970, 4200>>
      [] size = "a4" -> <<2100, 2970>>
      [] size = "letter" -> <<2160, 2790>>
      [] size = "tabloid" -> <<2794, 4318>>

\* DOCUMENT_WIDTH, DOCUMENT_HEIGHT after the landscape swap
document_size(size, orientation) ==
    IF orientation = "landscape"
    THEN <<PAPER_SIZES(size)[2], PAPER_SIZES(size)[1]>>
    ELSE PAPER_SIZES(size)

\* SVGBuilder.__init__; font: whether the HersheyFonts import succeeded
SVGBuilder(w, h, styles, font) ==
    [elements |-> <<>>, heap |-> <<>>, current_group |-> 0, width |-> w,
     height |-> h, default_styles |-> styles, hershey_font |-> font,
     opened |-> <<>>]

Id(id) == <<<<"id", Txt(id)>>>>
Pen(pen_color, stroke_width) ==
    <<<<"stroke", Txt(pen_color)>>, <<"stroke-width", Txt(stroke_width)>>>>

\* the background group: lines 66-70 and 352-356
background(s, paper_color) ==
    end_group(
        rect(title(begin_group(s, Id("background")),
                   <<"b", "a", "c", "k", "g", "r", "o", "u", "n", "d">>, <<>>),
             0, 0, s.width, s.height,
             <<<<"fill", Txt(paper_color)>>, <<"stroke", Txt("none")>>>>))

\* "M x y L x y ... Z": each letter and each number a word of its own
border_path_data(l, t, r, b) ==
    Words(<<<<Letter("M")>>, <<Digits(r)>>, <<Digits(b)>>,
            <<Letter("L")>>, <<Digits(l)>>, <<Digits(b)>>,
            <<Letter("L")>>, <<Digits(l)>>, <<Digits(t)>>,
            <<Letter("L")>>, <<Digits(r)>>, <<Digits(t)>>,
            <<Letter("L")>>, <<Digits(r)>>, <<Digits(b)>>,
            <<Letter("Z")>>>>)

\* lines 92-103: the same rectangle once more as a path
border_path(s, inset, pen_color) ==
    _add_element(s, Str("path",
        <<<<"d", border_path_data(inset, inset, s.width - inset,
                                  s.height - inset)>>>>
        \o _format_attrs(s,
              <<<<"fill", Txt("none")>>, <<"stroke", Txt(pen_color)>>,
                <<"stroke-width", Txt("1")>>,
                <<"stroke-dasharray", Txt("0")>>>>), <<>>))

\* the border group: lines 72-104
border(s, inset, pen_color) ==
    LET s1 == title(begin_group(s, Id("border")),
                    <<"b", "o", "r", "d", "e", "r">>, <<>>)
        s2 == rect(s1, inset, inset, s.width - 2 * inset, s.height - 2 * inset,
                   <<<<"fill", Txt("none")>>, <<"stroke", Txt(pen_color)>>,
                     <<"stroke-width", Txt("1")>>>>)
    IN end_group(border_path(s2, inset, pen_color))

\* the titles group: lines 107-140
titles(s, inset, title_text, subtitle, pen_color) ==
    LET title_box == get_hershey_text_bounding_box(s, title_text)
        subtitle_box == get_hershey_text_bounding_box(s, subtitle)
        right == s.width - inset - 100
        title_translate_y == inset + 100 + ((title_box.height \div 2) * 45) \div 100
        s1 == title(begin_group(s, Id("titles")),
                    <<"t", "i", "t", "l", "e", "s">>, <<>>)
        s2 == hershey_text(s1, right - (title_box.width * 45) \div 100 - 30,
                           title_translate_y, title_text, 45, Pen(pen_color, "1"))
        s3 == IF subtitle # <<>>
              THEN hershey_text(s2,
                      right - (subtitle_box.width * 30) \div 100 - 30,
                      title_translate_y + (title_box.height * 45) \div 100 + 40
                        + ((subtitle_box.height \div 2) * 30) \div 100,
                      subtitle, 30, Pen(pen_color, "1"))
              ELSE s2
    IN end_group(s3)

MaxOf(S) == CHOOSE m \in S : \A x \in S : x <= m

\* the rows of the legend, lines 184-224; g is the geometry of the table
RECURSIVE legend_rows(_, _, _, _)
legend_rows(s, legend, i, g) ==
    IF i > Len(legend) THEN s
    ELSE LET y == g.y + (i - 1) * g.cell
             label_box == get_hershey_text_bounding_box(s, legend[i][1])
             content_box == get_hershey_text_bounding_box(s, legend[i][2])
             s1 == IF i < Len(legend)
                   THEN line(s, g.x, y + g.cell, g.x + g.width, y + g.cell,
                             Pen(g.pen, "0.6"))
                   ELSE s
             s2 == hershey_text(s1, g.x + 20,
                      y + g.cell \div 2
                        - (((label_box.min_y + label_box.max_y) \div 2) * g.scale) \div 100,
                      legend[i][1], g.scale, Pen(g.pen, "3"))
             s3 == hershey_text(s2, g.x + g.name_width + 20,
                      y + g.cell \div 2
                        - (((content_box.min_y + content_box.max_y) \div 2) * g.scale) \div 100,
                      legend[i][2], g.scale, Pen(g.pen, "3"))
         IN legend_rows(s3, legend, i + 1, g)

legend_geometry(s, legend, inset, large, pen_color) ==
    LET scale == IF large THEN 13 ELSE 10
        padding == IF large THEN 100 ELSE 80
        name_width ==
            (MaxOf({0} \cup {get_hershey_text_bounding_box(s, legend[i][1]).width :
                               i \in 1..Len(legend)}) * scale) \div 100 + padding
        detail_width ==
            (MaxOf({0} \cup {get_hershey_text_bounding_box(s, legend[i][2]).width :
                               i \in 1..Len(legend)}) * scale) \div 100 + padding
    IN [width |-> name_width + detail_width, x |-> inset + 100, y |-> inset + 100,
        scale |-> scale,
        cell |-> IF large THEN 80 ELSE 60, pen |-> pen_color, name_width |-> name_width]

\* the legend group: lines 143-225
legend_table(s, legend, g) ==
    LET s1 == title(begin_group(s, Id("legend")),
                    <<"l", "e", "g", "e", "n", "d">>, <<>>)
        s2 == rect(s1, g.x, g.y, g.width, Len(legend) * g.cell,
                   <<<<"fill", Txt("none")>>, <<"stroke", Txt(g.pen)>>,
                     <<"stroke-width", Txt("0.6")>>>>)
        s3 == line(s2, g.x + g.name_width, g.y, g.x + g.name_width,
                   g.y + Len(legend) * g.cell, Pen(g.pen, "0.6"))
    IN end_group(legend_rows(s3, legend, 1, g))

\* line 143: if legend
legend_group(s, legend, inset, large, pen_color) ==
    IF legend # <<>>
    THEN legend_table(s, legend,
                      legend_geometry(s, legend, inset, large, pen_color))
    ELSE s

\* the schematic group: lines 228-240; schematic_svg is <<>> for None
schematic(s, schematic_svg, pen_color) ==
    IF schematic_svg = <<>>
    THEN Outcome(s, FALSE, FALSE, <<>>, <<>>, <<>>)
    ELSE LET r == add_schematic(
                    title(begin_group(s, Id("schematic")),
                          <<"s", "c", "h", "e", "m", "a", "t", "i", "c">>, <<>>),
                    schematic_svg[1], pen_color)
         IN IF r.raised THEN r ELSE [r EXCEPT !.self = end_group(r.self)]

render_blueprint_svg(font, title_text, subtitle, size, orientation, pen_color, legend, schematic_svg) ==
    LET inset == IF size \in {"a3", "tabloid"} THEN 120 ELSE 80
        s0 == SVGBuilder(document_size(size, orientation)[1],
                         document_size(size, orientation)[2],
                         Pen(pen_color, "0.5"), font)
        s1 == titles(border(background(s0, "white"), inset, pen_color),
                     inset, title_text, subtitle, pen_color)
    IN schematic(legend_group(s1, legend, inset, size \in {"a3", "tabloid"},
                              pen_color),
                 schematic_svg, pen_color)

(* ---------------------- artboard: the airport diagram ------------------ *)
\* min(scale_x, scale_y, MAX_SCALE) as a fraction <<p, q>>; MAX_SCALE = 1.5
MinFraction(a, b) == IF a[1] * b[2] <= b[1] * a[2] THEN a ELSE b
content_scale(available_width, available_height, content_width, content_height) ==
    IF content_width > 0 /\ content_height > 0
    THEN MinFraction(MinFraction(<<available_width, content_width>>,
                                 <<available_height, content_height>>),
                     <<3, 2>>)
    ELSE <<1, 1>>

\* PAGE_MARGIN + (available - content * scale) / 2, printed with two
\* decimals: hundredths of a millimetre
content_offset(available, content, scale) ==
    FmtFixed(300 * scale[2] + available * scale[2] - content * scale[1],
             20 * scale[2], 2)

\* SVGBuilder has no method process_schematic_strokes and no __getattr__:
\* the attribute lookup of line 468 raises AttributeError.
process_schematic_strokes(s, inner_content, pen_color) ==
    Outcome(s, TRUE, FALSE, <<>>, <<>>, <<>>)

\* lines 457-472: the schematic inside the content block
airport_schematic(s, schematic_svg, schematic_bbox, schematic_x, schematic_y, pen_color) ==
    process_schematic_strokes(
        begin_group(s,
            <<<<"transform",
                Nums("translate({}, {}) translate({}, {})",
                     <<schematic_x, schematic_y, -schematic_bbox.min_x,
                       -schematic_bbox.min_y>>)>>>>),
        extract_svg_contents(schematic_svg), pen_color)

\* lines 399-419: where the title, the subtitle and the schematic go inside
\* the content block
airport_layout(title_bbox, subtitle, subtitle_bbox, schematic_bbox) ==
    LET title_width == (title_bbox.width * 120) \div 100
        title_height == (title_bbox.height * 120) \div 100
        subtitle_width == (subtitle_bbox.width * 90) \div 100
        subtitle_height == (subtitle_bbox.height * 90) \div 100
        max_content_width ==
            MaxOf({title_width, subtitle_width, schematic_bbox.width})
        after_title == 50 + title_height + 150
        current_y == IF subtitle # <<>> THEN after_title + subtitle_height + 250
                     ELSE after_title + 250
    IN [content_width |-> max_content_width + 100,
        content_height |-> current_y + schematic_bbox.height + 50,
        schematic_x |-> 50,
        schematic_y |-> current_y,
        title_x |-> 50 + max_content_width \div 2 - title_width \div 2,
        title_y |-> 50 - (title_bbox.min_y * 120) \div 100,
        subtitle_x |-> 50 + max_content_width \div 2 - subtitle_width \div 2,
        subtitle_y |-> after_title - (subtitle_bbox.min_y * 90) \div 100]

\* lines 437-477: the content block
content_block(s, l, scale, title_text, subtitle, pen_color, schematic_svg, schematic_bbox) ==
    LET s1 == title(
                begin_group(s,
                    <<<<"id", Txt("content-block")>>,
                      <<"transform",
                        Nums("translate({:.2f}, {:.2f}) scale({:.4f})",
                             <<content_offset(s.width - 300, l.content_width, scale),
                               content_offset(s.height - 300, l.content_height, scale),
                               FmtFixed(scale[1], scale[2], 4)>>)>>>>),
                <<"S", "c", "a", "l", "e", "d", " ", "c", "o", "n", "t", "e",
                  "n", "t", " ", "b", "l", "o", "c", "k">>, <<>>)
        s2 == hershey_text(s1, l.title_x, l.title_y, title_text, 120,
                           Pen(pen_color, "1.5"))
        s3 == IF subtitle # <<>>
              THEN hershey_text(s2, l.subtitle_x, l.subtitle_y, subtitle, 90,
                                Pen(pen_color, "1.2"))
              ELSE s2
    IN IF schematic_svg # <<>>
       THEN airport_schematic(s3, schematic_svg[1], schematic_bbox,
                              l.schematic_x, l.schematic_y, pen_color)
       ELSE Outcome(end_group(s3), FALSE, FALSE, <<>>, <<>>, <<>>)

\* schematic_svg is <<>> for None or the empty string
render_airport_svg(font, title_text, subtitle, size, orientation, pen_color, schematic_svg) ==
    LET main_svg ==
            background(SVGBuilder(document_size(size, orientation)[1],
                                  document_size(size, orientation)[2],
                                  Pen(pen_color, "0.5"), font), "white")
        temp_svg == SVGBuilder(10000, 10000, <<>>, font)
        schematic_bbox ==
            IF schematic_svg # <<>> THEN calculate_bounding_box(schematic_svg[1])
            ELSE BBox(0, 0, 0, 0, FALSE)
        l == airport_layout(get_hershey_text_bounding_box(temp_svg, title_text),
                            subtitle,
                            get_hershey_text_bounding_box(temp_svg, subtitle),
                            schematic_bbox)
    IN IF schematic_bbox.raised
       THEN Outcome(main_svg, TRUE, FALSE, <<>>, <<>>, <<>>)
       ELSE [content_block(main_svg, l,
                content_scale(main_svg.width - 300, main_svg.height - 300,
                              l.content_width, l.content_height),
                title_text, subtitle, pen_color, schematic_svg, schematic_bbox)
               EXCEPT !.bbox = schematic_bbox]

(* ------------------------- workers: svg_tasks -------------------------- *)
\* [a-zA-Z0-9\-_]
KeptChars ==
    {"a", "b", "c", "d", "e", "f", "g", "h", "i", "j", "k", "l", "m", "n", "o",
     "p", "q", "r", "s", "t", "u", "v", "w", "x", "y", "z", "A", "B", "C", "D",
     "E", "F", "G", "H", "I", "J", "K", "L", "M", "N", "O", "P", "Q", "R", "S",
     "T", "U", "V", "W", "X", "Y", "Z", "0", "1", "2", "3", "4", "5", "6", "7",
     "8", "9", "-", "_"}

\* os.path.splitext: the extension starts at the last dot that is not among
\* the leading dots
ExtStart(filename) ==
    IF \E i \in 2..Len(filename) :
          filename[i] = "." /\ \E k \in 1..(i - 1) : filename[k] # "."
    THEN CHOOSE i \in 2..Len(filename) :
            /\ filename[i] = "."
            /\ \E k \in 1..(i - 1) : filename[k] # "."
            /\ \A j \in (i + 1)..Len(filename) : filename[j] # "."
    ELSE Len(filename) + 1

\* re.sub(r'_{2,}', '_', name)
RECURSIVE Squeeze(_)
Squeeze(name) ==
    IF Len(name) < 2 THEN name
    ELSE IF name[1] = "_" /\ name[2] = "_" THEN Squeeze(Tail(name))
    ELSE <<Head(name)>> \o Squeeze(Tail(name))

\* name.strip('_')
RECURSIVE Strip(_)
Strip(name) ==
    IF name = <<>> THEN name
    ELSE IF Head(name) = "_" THEN Strip(Tail(name))
    ELSE IF name[Len(name)] = "_" THEN Strip(SubSeq(name, 1, Len(name) - 1))
    ELSE name

clean_filename(filename) ==
    LET name == SubSeq(filename, 1, ExtStart(filename) - 1)
        ext == SubSeq(filename, ExtStart(filename), Len(filename))
        cleaned_name ==
            Strip(Squeeze([i \in 1..Len(name) |->
                             IF name[i] \in KeptChars THEN name[i] ELSE "_"]))
    IN (IF cleaned_name = <<>> THEN <<"f", "i", "l", "e">> ELSE cleaned_name)
       \o <<"_", "o", "p", "t", "i", "m", "i", "z", "e", "d">> \o ext

\* lines 60-63: the base name of the URL path, file.svg unless it ends in .svg
original_filename(basename) ==
    IF Len(basename) >= 4
       /\ SubSeq(basename, Len(basename) - 3, Len(basename)) = <<".", "s", "v", "g">>
    THEN basename
    ELSE <<"f", "i", "l", "e", ".", "s", "v", "g">>

TaskResult(status, message, uploaded) ==
    [raised |-> FALSE, status |-> status, message |-> message,
     uploaded |-> uploaded]

\* env: what the outside world did on this run: the download, the temporary
\* files, vpype, the output file, NODE_API_BASE_URL, the upload, the flag
\* update
schematic_vector_optimize(env, basename) ==
    IF env.download # "ok"
    THEN TaskResult("error", "Failed to download SVG from URL", <<>>)
    ELSE IF env.tempfile # "ok" \/ env.vpype = "raises"
    THEN TaskResult("error", "Unexpected error during optimization", <<>>)
    ELSE IF env.vpype = "none" \/ env.output # "written"
    THEN TaskResult("completed",
                    "Schematic vector optimization completed successfully", <<>>)
    ELSE IF env.base_url = "unset"
    THEN TaskResult("error", "Unexpected error during optimization", <<>>)
    ELSE IF env.upload # "ok"
    THEN TaskResult("error", "Failed to download SVG from URL", <<>>)
    ELSE TaskResult("completed",
                    "Schematic vector optimization completed successfully",
                    clean_filename(original_filename(basename)))

(* ------------------------------- inputs -------------------------------- *)
\* The builders constructed: page size, default styles, whether the
\* HersheyFonts import succeeded.
Config(w, h, d, f) ==
    [width |-> w, height |-> h, default_styles |-> d, hershey_font |-> f]

TestStyles == <<<<"stroke", Txt("black")>>, <<"stroke-width", Txt("2")>>>>

Configs ==
    {Config(500, 400, TestStyles, TRUE),
     Config(210, 300, <<>>, TRUE),
     Config(200, 300, <<>>, FALSE)}

NoAttrs == <<>>
StrokeBlue == <<<<"stroke", Txt("blue")>>>>
FillRed == <<<<"fill", Txt("red")>>>>
AttrChoices == {NoAttrs, StrokeBlue, FillRed}

GroupAttrChoices ==
    {<<<<"id", Txt("legend")>>>>, <<<<"id", Txt("titles")>>>>}

TextChoices == {<<"a", "&", "b">>}
TitleChoices == {<<"a", "<", "b">>}

HersheyChoices == {<<>>, <<"A">>}

Colors == {"green"}

RawChoices ==
    {RawMarkup(<<Tag("polygon",
                     <<<<"points", Words(<<<<Digits(0)>>, <<Digits(0)>>,
                                           <<Digits(50)>>, <<Digits(50)>>>>)>>>>)>>)}

\* Foreign documents handed to add_schematic.
Fragments ==
    {Svg(NoViewBox, <<Tag("rect", <<<<"x", Num(0)>>, <<"y", Num(0)>>,
                               <<"width", Num(1000)>>, <<"height", Num(500)>>,
                               <<"stroke", Txt("red")>>>>)>>),
     Svg(NoViewBox, <<Tag("path", <<<<"d", PathData(<<100, 100, 300, 200>>)>>,
                               <<"style", Txt("stroke:red")>>>>)>>),
     Svg(NoViewBox, <<Tag("line", <<<<"x1", Num(0)>>, <<"y1", Num(0)>>,
                               <<"x2", Num(1000)>>, <<"y2", Num(0)>>>>)>>),
     Svg(NoViewBox, <<Tag("rect", <<<<"x", Num(0)>>, <<"y", Num(0)>>,
                               <<"width", Num(200000)>>,
                               <<"height", Num(10)>>>>)>>),
     NoSvg}

\* Foreign documents with strokes and styles of their own.
StyledFragments ==
    {Svg(NoViewBox, <<Tag("rect", <<<<"x", Num(0)>>, <<"y", Num(0)>>,
                                   <<"width", Num(1000)>>, <<"height", Num(500)>>,
                                   <<"stroke", Txt("red")>>>>)>>),
     Svg(NoViewBox, <<Tag("path", <<<<"d", PathData(<<100, 100, 300, 900>>)>>,
                                   SingleQuoted("style", Txt("stroke:red"))>>)>>),
     Svg(NoViewBox, <<Tag("circle", <<<<"cx", Num(500)>>, <<"cy", Num(500)>>,
                                     <<"r", Num(250)>>,
                                     <<"data-stroke", Txt("1")>>>>)>>),
     Svg(NoViewBox, <<Tag("line", <<<<"x1", Num(0)>>, <<"y1", Num(0)>>,
                                   <<"x2", Num(1000)>>, <<"y2", Num(500)>>,
                                   SingleQuoted("stroke", Txt("blue"))>>)>>),
     Svg(NoViewBox, <<Tag("ellipse", <<<<"cx", Num(500)>>, <<"cy", Num(500)>>,
                                      <<"rx", Num(400)>>, <<"ry", Num(250)>>,
                                      <<"style", Txt("fill:none")>>>>),
                      Tag("g", <<<<"style", Txt("opacity:1")>>>>)>>),
     NoSvg}

(* fragments handed to calculate_bounding_box *)
\* One rect: the geometry in two orders, alone or with rx / ry or
\* stroke-width written before or after it.
RectFragments ==
    LET Geometry(x, y, w) ==
            <<<<"x", Num(x)>>, <<"y", Num(y)>>, <<"width", Num(w)>>,
              <<"height", Num(400)>>>>
        Reordered(x, y, w) ==
            <<<<"height", Num(400)>>, <<"width", Num(w)>>, <<"y", Num(y)>>,
              <<"x", Num(x)>>>>
        Corners == <<<<"rx", Num(50)>>, <<"ry", Num(60)>>>>
        PenWidth == <<<<"stroke-width", Num(20)>>>>
        Layouts(x, y, w) ==
            {Geometry(x, y, w), Reordered(x, y, w),
             Corners \o Geometry(x, y, w), Geometry(x, y, w) \o Corners,
             PenWidth \o Geometry(x, y, w), Geometry(x, y, w) \o PenWidth}
    IN UNION {{Svg(NoViewBox, <<Tag("rect", a)>>) : a \in Layouts(x, y, w)} :
              x \in {0, 100}, y \in {0, 200}, w \in {0, 300}}

\* Path data: M 10 10, then possibly a command with missing, too few or
\* unparseable operands, then well-formed commands; with each the points
\* its well-formed commands reach.
PathCases ==
    LET Junk(cs) == [k \in 1..Len(cs) |-> Letter(cs[k])]
        Command(c, operands) ==
            <<Junk(<<c>>)>> \o [k \in 1..Len(operands) |-> <<Digits(operands[k])>>]
        Malformed ==
            {<<>>,
             <<Junk(<<"L">>), Junk(<<"B", "A", "D">>)>>,
             Command("L", <<5>>),
             <<Junk(<<"L">>), Junk(<<"X">>), <<Digits(20)>>>>,
             Command("Q", <<1>>),
             Command("C", <<1, 2, 3, 4>>) \o <<Junk(<<"X">>), <<Digits(6)>>>>,
             <<Junk(<<"H">>)>>}
        WellFormed ==
            {[d |-> Command("L", <<20, 20>>), points |-> {<<20, 20>>}],
             [d |-> Command("H", <<30>>), points |-> {<<30, 10>>}],
             [d |-> Command("V", <<40>>), points |-> {<<10, 40>>}],
             [d |-> Command("l", <<5, 5>>), points |-> {<<15, 15>>}],
             [d |-> Command("L", <<20, 30>>) \o Command("L", <<40, 50>>),
              points |-> {<<20, 30>>, <<40, 50>>}]}
    IN {[d |-> Command("M", <<10, 10>>) \o bad \o after.d,
         points |-> {<<10, 10>>} \cup after.points] :
            bad \in Malformed, after \in WellFormed}

PathFragment(d) == Svg(NoViewBox, <<Tag("path", <<<<"d", Words(d)>>>>)>>)

\* Fragments in which no element gives both an x and a y.
FallbackFragments ==
    LET ViewBoxes ==
            {NoViewBox,
             ViewBox(" ", <<0, 0, 1000, 500>>), ViewBox(" ", <<50, 50, 1000, 500>>),
             ViewBox(",", <<0, 0, 1000, 500>>), ViewBox(", ", <<0, 0, 1000, 500>>),
             ViewBox(" ", <<0, 0, 1000>>), ViewBox(" ", <<0, 0, -100, -50>>)}
        Bare ==
            {<<>>,
             <<Tag("g", <<<<"id", Txt("layer")>>>>)>>,
             <<Tag("line", <<<<"x1", Num(50)>>, <<"y1", Txt("a")>>,
                             <<"x2", Num(70)>>, <<"y2", Txt("a")>>>>)>>,
             <<Tag("circle", <<<<"cx", Txt("a")>>, <<"cy", Num(50)>>,
                               <<"r", Num(10)>>>>)>>}
    IN {Svg(viewBox, inner) : viewBox \in ViewBoxes, inner \in Bare}
       \cup {NoSvg}

\* Elements with a numeric attribute that does not parse, or with units.
UnparseableFragments ==
    LET Rect(x, y, w, h) ==
            Tag("rect", <<<<"x", x>>, <<"y", y>>, <<"width", w>>, <<"height", h>>>>)
        Text(x, y, content) ==
            [tag |-> "text", attrs |-> <<<<"x", x>>, <<"y", y>>>>,
             content |-> content]
        Tags ==
            {Rect(Txt("abc"), Num(0), Num(300), Num(400)),
             Rect(Num(0), Txt("abc"), Num(300), Num(400)),
             Rect(Num(0), Num(0), Txt("abc"), Num(400)),
             Rect(Num(0), Num(0), Num(300), Txt("abc")),
             Rect(Nums("mm", <<100>>), Nums("px", <<200>>),
                  Nums("%", <<300>>), Num(400)),
             Tag("circle", <<<<"cx", Num(50)>>, <<"cy", Txt("a")>>,
                             <<"r", Num(10)>>>>),
             Tag("circle", <<<<"cx", Num(50)>>, <<"cy", Num(50)>>,
                             <<"r", Txt("a")>>>>),
             Tag("ellipse", <<<<"cx", Num(50)>>, <<"cy", Num(50)>>,
                              <<"rx", Txt("a")>>, <<"ry", Num(10)>>>>),
             Tag("line", <<<<"x1", Txt("a")>>, <<"y1", Num(10)>>,
                           <<"x2", Num(50)>>, <<"y2", Num(60)>>>>),
             Tag("polyline",
                 <<<<"points", Words(<<<<Digits(10)>>, <<Digits(20)>>,
                                       <<Letter("a")>>, <<Digits(30)>>,
                                       <<Digits(50)>>, <<Digits(60)>>>>)>>>>),
             Text(Txt("a"), Num(10), <<"h", "i">>),
             Text(Num(10), Txt("a"), <<"h", "i">>),
             Text(Txt("a"), Num(10), <<>>),
             Text(Num(10), Num(10), <<"h", "i">>)}
    IN {Svg(viewBox, <<tag>>) :
            viewBox \in {NoViewBox, ViewBox(" ", <<0, 0, 1000, 500>>)},
            tag \in Tags}

\* PAPER_SIZES['tabloid'], in tenths of a millimetre
tabloid == <<2794, 4318>>

(* ------------------------------ the calls ------------------------------ *)
StrCount(items) == Len(SelectSeq(items, LAMBDA e : e.kind = "str"))
ItemCount ==
    StrCount(elements)
    + SeqSum([g \in 1..Len(heap) |-> StrCount(heap[g].elements)])

\* The marks an add_schematic call leaves: a schematic-content group or an
\* error-marker text.  render_blueprint_svg places one schematic on a page.
Placed(items) ==
    Len(SelectSeq(items, LAMBDA e : e.kind = "str" /\ e.content = error_marker))
SchematicCount ==
    Placed(elements)
    + SeqSum([g \in 1..Len(heap) |->
                Placed(heap[g].elements)
                + (IF HasId(heap[g].attrs, "schematic-content") THEN 1 ELSE 0)])

Room(groups, items) ==
    /\ Len(heap) + groups <= MaxGroups
    /\ ItemCount + items <= MaxItems

\* What the last call was and what came back from it.
Ret(op, r) ==
    [value |-> r.value, attrs |-> r.attrs, content |-> r.content, out |-> r.out,
     raised |-> r.raised, scale |-> r.scale, bbox |-> r.bbox,
     color |-> r.color, failed |-> r.failed,
     dims |-> r.dims, translate |-> r.translate, scale_computed |-> r.scale_computed,
     offset |-> r.offset, upper |-> r.upper, svg |-> r.svg, op |-> op,
     pre |-> current_group]
Returned(value) ==
    [value |-> value, attrs |-> <<>>, content |-> <<>>, out |-> <<>>,
     raised |-> FALSE, scale |-> <<>>, bbox |-> BBox(0, 0, 0, 0, FALSE),
     color |-> "", failed |-> FALSE, dims |-> <<>>, translate |-> <<>>,
     scale_computed |-> FALSE, offset |-> <<>>, upper |-> 0,
     svg |-> NoSvg]
\* returned self from a call that was given these explicit attributes
Emitted(attrs) == [Returned("self") EXCEPT !.attrs = attrs]

Init ==
    /\ \E c \in Configs :
          /\ width = c.width
          /\ height = c.height
          /\ default_styles = c.default_styles
          /\ hershey_font = c.hershey_font
    /\ elements = <<>>
    /\ heap = <<>>
    /\ current_group = 0
    /\ opened = <<>>
    /\ walk = NoWalk
    /\ ret = [Ret("__init__", Returned("self")) EXCEPT !.pre = 0]

Call_rect ==
    /\ Room(0, 1)
    /\ \E attrs \in AttrChoices :
          /\ Commit(rect(Self, 100, 200, 300, 400, attrs))
          /\ ret' = Ret("rect", Emitted(attrs))

Call_circle ==
    /\ Room(0, 1)
    /\ \E attrs \in {NoAttrs} :
          /\ Commit(circle(Self, 500, 500, 250, attrs))
          /\ ret' = Ret("circle", Emitted(attrs))

Call_ellipse ==
    /\ Room(0, 1)
    /\ \E attrs \in {FillRed} :
          /\ Commit(ellipse(Self, 500, 500, 400, 250, attrs))
          /\ ret' = Ret("ellipse", Emitted(attrs))

Call_line ==
    /\ Room(0, 1)
    /\ \E attrs \in {StrokeBlue} :
          /\ Commit(line(Self, 100, 100, 900, 900, attrs))
          /\ ret' = Ret("line", Emitted(attrs))

Call_path ==
    /\ Room(0, 1)
    /\ \E attrs \in {NoAttrs} :
          /\ Commit(path(Self, <<100, 100, 500, 600>>, attrs))
          /\ ret' = Ret("path", Emitted(attrs))

Call_text ==
    /\ Room(0, 1)
    /\ \E attrs \in {StrokeBlue}, content \in TextChoices :
          /\ Commit(text(Self, 250, 400, content, attrs))
          /\ ret' = Ret("text", Emitted(attrs))

Call_title ==
    /\ Room(0, 1)
    /\ \E content \in TitleChoices : Commit(title(Self, content, <<>>))
    /\ ret' = Ret("title", Returned("self"))

Call_begin_group ==
    /\ Room(1, 0)
    /\ \E attrs \in GroupAttrChoices : Commit(begin_group(Self, attrs))
    /\ ret' = Ret("begin_group", Returned("self"))

Call_begin_group_plain ==
    /\ Room(1, 0)
    /\ Commit(begin_group(Self, NoAttrs))
    /\ ret' = Ret("begin_group", Returned("self"))

Call_add_element ==
    /\ Room(0, 1)
    /\ \E element \in RawChoices : Commit(_add_element(Self, element))
    /\ ret' = Ret("_add_element", Returned("self"))

Call_end_group ==
    /\ Commit(end_group(Self))
    /\ ret' = Ret("end_group", Returned("self"))

Call_hershey_text ==
    \E content \in HersheyChoices, attrs \in {FillRed} :
        /\ Room(1, 1 + Len(content))
        /\ Commit(hershey_text(Self, 50, 60, content, 1, attrs))
        /\ ret' = Ret("hershey_text", Emitted(attrs))

Call_to_string ==
    LET r == to_string(Self)
    IN /\ Commit(r.self)
       /\ ret' = Ret("to_string", [Returned("str") EXCEPT !.out = r.out])

Call_add_schematic ==
    /\ Room(1, 1)
    /\ SchematicCount = 0
    /\ \E svg_content \in Fragments, color \in Colors :
          LET r == add_schematic(Self, svg_content, color)
          IN /\ Commit(r.self)
             /\ ret' = Ret("add_schematic",
                            [value |-> r.value, attrs |-> <<>>,
                             content |-> <<>>, out |-> <<>>,
                             raised |-> r.raised,
                             scale |-> r.scale,
                             bbox |-> r.bbox, color |-> r.color,
                             failed |-> r.failed, dims |-> r.dims,
                             translate |-> r.translate, scale_computed |-> r.scale_computed,
                             offset |-> r.offset, upper |-> r.upper,
                             svg |-> r.svg])

\* A page being composed: text, groups, Hershey text, a schematic.
Next ==
    \/ Call_text
    \/ Call_begin_group
    \/ Call_end_group
    \/ Call_hershey_text
    \/ Call_to_string
    \/ Call_add_schematic

Spec == Init /\ [][Next]_vars

\* A tabloid page that receives a schematic with strokes of its own.
InitTabloid ==
    /\ width = tabloid[1]
    /\ height = tabloid[2]
    /\ default_styles = <<>>
    /\ hershey_font = FALSE
    /\ elements = <<>>
    /\ heap = <<>>
    /\ current_group = 0
    /\ opened = <<>>
    /\ walk = NoWalk
    /\ ret = [Ret("__init__", Returned("self")) EXCEPT !.pre = 0]

Call_add_styled_schematic ==
    /\ Room(1, 1)
    /\ SchematicCount = 0
    /\ \E svg_content \in StyledFragments, color \in Colors :
          LET r == add_schematic(Self, svg_content, color)
          IN /\ Commit(r.self)
             /\ ret' = Ret("add_schematic",
                            [value |-> r.value, attrs |-> <<>>,
                             content |-> <<>>, out |-> <<>>,
                             raised |-> r.raised,
                             scale |-> r.scale,
                             bbox |-> r.bbox, color |-> r.color,
                             failed |-> r.failed, dims |-> r.dims,
                             translate |-> r.translate, scale_computed |-> r.scale_computed,
                             offset |-> r.offset, upper |-> r.upper,
                             svg |-> r.svg])

NextTabloid ==
    \/ Call_text
    \/ Call_title
    \/ Call_begin_group
    \/ Call_end_group
    \/ Call_add_styled_schematic

SpecTabloid == InitTabloid /\ [][NextTabloid]_vars

\* text() and title() on every short content over the special characters.
EscapeChars == {"&", "<", ">", "\"", "'", "a", ";"}
EscapeTexts == UNION {[1..n -> EscapeChars] : n \in 0..MaxLen}

Call_text_content ==
    /\ ItemCount = 0
    /\ \E content \in EscapeTexts :
          /\ Commit(text(Self, 250, 400, content, NoAttrs))
          /\ ret' = Ret("text", [Returned("self") EXCEPT !.content = content])

Call_title_content ==
    /\ ItemCount = 0
    /\ \E content \in EscapeTexts :
          /\ Commit(title(Self, content, <<>>))
          /\ ret' = Ret("title", [Returned("self") EXCEPT !.content = content])

NextEscape ==
    \/ Call_text_content
    \/ Call_title_content

SpecEscape == Init /\ [][NextEscape]_vars

\* Hershey text measured and drawn, with and without the glyph backend.
HersheyTexts == HersheyChoices \cup {<<" ">>, <<"A", " ", "B">>}

Call_get_hershey_text_bounding_box ==
    \E content \in HersheyTexts :
        LET bbox == get_hershey_text_bounding_box(Self, content)
        IN /\ UNCHANGED <<elements, heap, current_group, width, height,
                          default_styles, hershey_font, opened, walk>>
           /\ ret' = Ret("get_hershey_text_bounding_box",
                          [Returned(IF bbox.raised THEN "exception" ELSE "dict")
                             EXCEPT !.raised = bbox.raised, !.bbox = bbox,
                                    !.content = content])

Call_hershey_text_with_bbox ==
    \E content \in HersheyTexts, attrs \in {NoAttrs, StrokeBlue} :
        /\ Len(heap) + 1 <= MaxGroups
        /\ Commit(hershey_text_with_bbox(Self, 50, 60, content, 1, attrs, attrs))
        /\ ret' = Ret("hershey_text_with_bbox",
                       [Emitted(attrs) EXCEPT !.content = content])

NextHershey ==
    \/ Call_begin_group
    \/ Call_end_group
    \/ Call_hershey_text
    \/ Call_get_hershey_text_bounding_box
    \/ Call_hershey_text_with_bbox
    \/ Call_add_styled_schematic

SpecHershey == Init /\ [][NextHershey]_vars

(* ------------------------ blueprints: container ----------------------- *)
\* Plot times are in tenths of a second; int() drops the fraction.  The text
\* is the sequence of its numbers and letters.
hms(hours, minutes, seconds) ==
    <<Digits(hours), Letter("h"), Letter(" "), Digits(minutes), Letter("m"),
      Letter(" "), Digits(seconds \div 10), Letter("s")>>
ms(minutes, seconds) ==
    <<Digits(minutes), Letter("m"), Letter(" "), Digits(seconds \div 10),
      Letter("s")>>

\* the hours never printed
time_estimate_without_hours(time_estimate_seconds) ==
    ms((time_estimate_seconds % 36000) \div 600,
       (time_estimate_seconds % 36000) % 600)
time_estimate(time_estimate_seconds) ==
    IF time_estimate_seconds \div 36000 > 0
    THEN hms(time_estimate_seconds \div 36000,
             (time_estimate_seconds % 36000) \div 600,
             (time_estimate_seconds % 36000) % 600)
    ELSE ms((time_estimate_seconds % 36000) \div 600,
            (time_estimate_seconds % 36000) % 600)

PlotTimes ==
    {s * 10 + f : s \in (0..130) \cup (3590..3670) \cup {7325, 90061},
                  f \in {0, 9}}

\* container(): the Draw Time detail of the legend for a plot time
Call_container ==
    \E t \in PlotTimes :
        /\ UNCHANGED <<elements, heap, current_group, width, height,
                       default_styles, hershey_font, opened, walk>>
        /\ ret' = Ret("container",
                       [Returned("svg") EXCEPT !.content = time_estimate(t),
                                               !.dims = <<t>>])

SpecContainer == Init /\ [][Call_container]_vars

\* Path data of well-formed commands: every command letter of the walk in
\* its absolute and its relative form, each with its full operand list.
PathCommands ==
    {[c |-> "M", operands |-> <<10, 20>>], [c |-> "m", operands |-> <<-1, 2>>],
     [c |-> "L", operands |-> <<30, 40>>], [c |-> "l", operands |-> <<3, -4>>],
     [c |-> "H", operands |-> <<50>>], [c |-> "h", operands |-> <<5>>],
     [c |-> "V", operands |-> <<60>>], [c |-> "v", operands |-> <<-6>>],
     [c |-> "C", operands |-> <<70, 280, 290, 100, 110, 120>>],
     [c |-> "c", operands |-> <<7, 8, -9, 10, 11, 12>>],
     [c |-> "S", operands |-> <<330, 140, 150, 160>>],
     [c |-> "s", operands |-> <<13, 14, 15, 16>>],
     [c |-> "Q", operands |-> <<170, 380, 190, 200>>],
     [c |-> "q", operands |-> <<-17, 18, 19, 20>>],
     [c |-> "T", operands |-> <<210, 220>>], [c |-> "t", operands |-> <<21, 22>>],
     [c |-> "A", operands |-> <<400, 400, 0, 1, 0, 230, 240>>],
     [c |-> "a", operands |-> <<400, 400, 0, 0, 1, 23, 24>>]}

WalkCases == UNION {[1..n -> PathCommands] : n \in 1..MaxCommands}

\* the d attribute that spells the commands, a letter or a number per word
CommandWords(commands) ==
    Concat([k \in 1..Len(commands) |->
              <<<<Letter(commands[k].c)>>>>
              \o [j \in 1..Len(commands[k].operands) |->
                     <<Digits(commands[k].operands[j])>>]])

\* The function is pure and leaves the builder alone: what it does shows in
\* one call from the initial state.
Call_bounding_box_commands ==
    /\ ret.op = "__init__"
    /\ \E commands \in WalkCases :
        LET svg_content == PathFragment(CommandWords(commands))
            bbox == calculate_bounding_box(svg_content)
        IN /\ UNCHANGED <<elements, heap, current_group, width, height,
                          default_styles, hershey_font, opened, walk>>
           /\ ret' = Ret("calculate_bounding_box",
                          [Returned(IF bbox.raised THEN "exception" ELSE "dict")
                             EXCEPT !.raised = bbox.raised, !.svg = svg_content,
                                    !.bbox = bbox, !.content = commands])

SpecWalk == InitTabloid /\ [][Call_bounding_box_commands]_vars

\* calculate_bounding_box on one path, one turn of the while loop at a time.
StepCases ==
    {case.d : case \in PathCases}
    \cup {CommandWords(<<command>>) : command \in PathCommands}
    \cup {<<<<Letter("M")>>, <<Digits(10)>>, <<Digits(20)>>, <<Letter("c")>>,
            <<Digits(1)>>, <<Digits(2)>>, <<Letter("X")>>, <<Digits(4)>>,
            <<Digits(5)>>, <<Digits(6)>>, <<Digits(7)>>>>}

\* lines 753-782: the path is found, d is split
Walk_begin ==
    /\ walk.phase = "idle"
    /\ \E d \in StepCases :
          walk' = [phase |-> "walking", tokens |-> Tokenize(d),
                   st |-> FirstTurn(InfBox, Tokenize(d)), n |-> 0]
    /\ UNCHANGED <<elements, heap, current_group, width, height,
                   default_styles, hershey_font, opened, ret>>

\* lines 783-963: one turn
Walk_turn ==
    /\ walk.phase = "walking"
    /\ ~walk.st.stop
    /\ walk.st.i <= Len(walk.tokens)
    /\ walk.n <= Len(walk.tokens)
    /\ walk' = [walk EXCEPT !.st = PathStep(walk.tokens, walk.st), !.n = @ + 1]
    /\ UNCHANGED <<elements, heap, current_group, width, height,
                   default_styles, hershey_font, opened, ret>>

\* the loop is left (line 783) or the outer handler is reached (964-965);
\* lines 967-1007 return the box
Walk_end ==
    /\ walk.phase = "walking"
    /\ walk.st.stop \/ walk.st.i > Len(walk.tokens)
    /\ walk' = [walk EXCEPT !.phase = "done"]
    /\ ret' = Ret("calculate_bounding_box",
                   [Returned("dict")
                      EXCEPT !.bbox = bounding_box_result(walk.st.bb, NoViewBox)])
    /\ UNCHANGED <<elements, heap, current_group, width, height,
                   default_styles, hershey_font, opened>>

NextWalkTurns ==
    \/ Walk_begin
    \/ Walk_turn
    \/ Walk_end

\* The call is synchronous: once begun, the interpreter keeps taking turns
\* and returns when the loop is left.
SpecWalkTurns ==
    /\ InitTabloid
    /\ [][NextWalkTurns]_vars
    /\ WF_vars(Walk_turn)
    /\ WF_vars(Walk_end)

(* ----------------------- artboard handlers called ---------------------- *)
Titles == {<<"A">>, <<"A", "B">>}
Subtitles == {<<>>, <<"B">>}
Legends ==
    {<<>>, <<<<<<"A">>, <<"B", "C">>>>>>,
     <<<<<<"A">>, <<"B", "C">>>>, <<<<"D", "E">>, <<" ">>>>>>}
Schematics == {<<>>} \cup {<<f>> : f \in StyledFragments}

\* a fresh interpreter: no document built yet
Fresh == elements = <<>> /\ heap = <<>>

\* the document a render function returned becomes the interpreter's state
Rendered(op, r, schematic_svg) ==
    /\ Commit(r.self)
    /\ ret' = [Ret(op, [attrs |-> <<>>, value |-> r.value,
                        raised |-> r.raised, failed |-> r.failed,
                        dims |-> r.dims, scale_computed |-> r.scale_computed,
                        scale |-> r.scale, translate |-> r.translate,
                        out |-> <<>>, offset |-> r.offset, upper |-> r.upper,
                        svg |-> r.svg, color |-> r.color, bbox |-> r.bbox,
                        content |-> schematic_svg])
                 EXCEPT !.pre = 0]

Call_render_blueprint_svg ==
    /\ Fresh
    /\ \E title_text \in Titles, subtitle \in Subtitles,
          size \in {"tabloid", "a4"}, orientation \in {"portrait", "landscape"},
          pen_color \in Colors, legend \in Legends,
          schematic_svg \in Schematics :
          Rendered("render_blueprint_svg",
              render_blueprint_svg(hershey_font, title_text, subtitle,
                  size, orientation, pen_color, legend, schematic_svg),
              schematic_svg)

Call_render_airport_svg ==
    /\ Fresh
    /\ \E title_text \in Titles, subtitle \in Subtitles,
          size \in {"tabloid", "a4"}, orientation \in {"portrait", "landscape"},
          pen_color \in Colors, schematic_svg \in Schematics :
          Rendered("render_airport_svg",
              render_airport_svg(hershey_font, title_text, subtitle,
                  size, orientation, pen_color, schematic_svg),
              schematic_svg)

NextArtboard ==
    \/ Call_render_blueprint_svg
    \/ Call_render_airport_svg

\* The background task: every way the outside world can answer.
Environments ==
    [download : {"ok", "fails"}, tempfile : {"ok", "fails"},
     vpype : {"document", "none", "raises"}, output : {"written", "empty"},
     base_url : {"set", "unset"}, upload : {"ok", "fails"},
     update : {"ok", "fails"}]
Basenames ==
    {<<"a", " ", "b", ".", "s", "v", "g">>, <<"m", "a", "p">>, <<>>,
     <<".", "s", "v", "g">>, <<"a", ".", "b", "!", "!", ".", "s", "v", "g">>}

Call_schematic_vector_optimize ==
    /\ ret.op = "__init__"
    /\ \E env \in Environments, basename \in Basenames :
          LET r == schematic_vector_optimize(env, basename)
          IN /\ UNCHANGED <<elements, heap, current_group, width, height,
                            default_styles, hershey_font, opened, walk>>
             /\ ret' = Ret("schematic_vector_optimize",
                            [Returned(r.status)
                               EXCEPT !.raised = r.raised, !.out = r.uploaded,
                                      !.attrs = <<env>>, !.content = basename])

SpecWorker == Init /\ [][Call_schematic_vector_optimize]_vars

SpecArtboard == Init /\ [][NextArtboard]_vars

\* calculate_bounding_box on foreign documents; the builder is not touched.
Measure(svg_content) ==
    LET bbox == calculate_bounding_box(svg_content)
    IN /\ UNCHANGED <<elements, heap, current_group, width, height,
                      default_styles, hershey_font, opened, walk>>
       /\ ret' = Ret("calculate_bounding_box",
                      [Returned(IF bbox.raised THEN "exception" ELSE "dict")
                         EXCEPT !.raised = bbox.raised, !.svg = svg_content,
                                !.bbox = bbox])

Call_bounding_box_rect == \E svg_content \in RectFragments : Measure(svg_content)
Call_bounding_box_path == \E case \in PathCases : Measure(PathFragment(case.d))
Call_bounding_box_bare ==
    \E svg_content \in FallbackFragments : Measure(svg_content)
Call_bounding_box_unparseable ==
    \E svg_content \in UnparseableFragments : Measure(svg_content)

NextBBox ==
    \/ Call_bounding_box_rect
    \/ Call_bounding_box_path
    \/ Call_bounding_box_bare
    \/ Call_bounding_box_unparseable

SpecBBox == InitTabloid /\ [][NextBBox]_vars

\* Every primitive emitter, in plain groups.
NextPrims ==
    \/ Call_rect
    \/ Call_circle
    \/ Call_ellipse
    \/ Call_line
    \/ Call_path
    \/ Call_text
    \/ Call_title
    \/ Call_add_element
    \/ Call_begin_group_plain
    \/ Call_end_group

InitPrims == Init /\ hershey_font /\ height = 400

SpecPrims == InitPrims /\ [][NextPrims]_vars

(* ------------------------------ properties ----------------------------- *)
\* The element list of a frame: the root list for frame 0.
Children(f) == IF f = 0 THEN elements ELSE heap[f].elements
LastChild(f) == Children(f)[Len(Children(f))]

\* This step appends exactly one markup string to frame f and changes no
\* other list, no group's attributes or parent, and creates no group.
AppendsOneTo(f) ==
    /\ Len(heap') = Len(heap)
    /\ Len(Children(f)') = Len(Children(f)) + 1
    /\ SubSeq(Children(f)', 1, Len(Children(f))) = Children(f)
    /\ LastChild(f)'.kind = "str"
    /\ f # 0 => elements' = elements
    /\ \A g \in 1..Len(heap) :
          /\ heap'[g].attrs = heap[g].attrs
          /\ heap'[g].parent = heap[g].parent
          /\ g # f => heap'[g].elements = heap[g].elements

\* C1: end_group() makes current the frame that was current immediately
\* before the matching begin_group() (last opened, first closed); with no
\* group open it raises nothing and leaves the root list, every group's
\* child list and the current frame (root) as they were.
C1_EndGroupLIFO ==
    [][ret'.op = "end_group" =>
         /\ ~ret'.raised
         /\ elements' = elements
         /\ heap' = heap
         /\ IF opened = <<>>
            THEN current_group = 0 /\ current_group' = 0
            ELSE current_group' = opened[Len(opened)]]_vars

\* end_group() has returned from a nested group to its parent group.
C1_Witness ==
    /\ ret.op = "end_group"
    /\ current_group # 0
    /\ ret.pre # 0
    /\ ret.pre # current_group

PrimitiveOps ==
    {"rect", "circle", "ellipse", "line", "path", "text", "title",
     "_add_element"}

\* C2: each primitive emitter appends exactly one element at the end of the
\* child list of the innermost open group (the root list when none is
\* open) and changes no other child list nor the current-group pointer.
C2_PrimitiveAppendsOne ==
    [][ret'.op \in PrimitiveOps =>
         /\ current_group' = current_group
         /\ AppendsOneTo(current_group)]_vars

\* A primitive has been appended to a group nested in another group.
C2_Witness ==
    /\ ret.op \in PrimitiveOps
    /\ current_group # 0
    /\ heap[current_group].parent # 0
    /\ heap[current_group].elements # <<>>

\* The number of times key k is printed in an attribute list.
Occurrences(attrs, k) == Cardinality({i \in 1..Len(attrs) : attrs[i][1] = k})

AttrEmitters == {"rect", "circle", "ellipse", "line", "path", "text"}

\* C3: for a primitive emitted with default styles D and explicit
\* attributes A, every key of D or A is printed exactly once in the element,
\* with the value of A when A has the key and the value of D otherwise.
C3_MergeOverrideWins ==
    ret.op \in AttrEmitters =>
        LET el == LastChild(current_group)
        IN \A k \in Keys(default_styles) \cup Keys(ret.attrs) :
              /\ Occurrences(el.attrs, k) = 1
              /\ Get(el.attrs, k) =
                    IF k \in Keys(ret.attrs) THEN Get(ret.attrs, k)
                    ELSE Get(default_styles, k)

\* A primitive was emitted with an explicit stroke over a default stroke.
C3_Witness ==
    /\ ret.op = "rect"
    /\ ret.attrs = StrokeBlue
    /\ "stroke" \in Keys(default_styles)

\* The path elements the last hershey_text call put in its group.
HersheyPaths ==
    SelectSeq(heap[Len(heap)].elements, LAMBDA e : e.tag = "path")

\* C4: the default-style value of a key is applied to every element the
\* builder emits and is replaced only when the explicit attributes of that
\* call contain the key, also in the paths hershey_text emits.
C4_DefaultsUnlessOverridden ==
    /\ ret.op \in AttrEmitters =>
          \A k \in Keys(default_styles) \ Keys(ret.attrs) :
             /\ k \in Keys(LastChild(current_group).attrs)
             /\ Get(LastChild(current_group).attrs, k) = Get(default_styles, k)
    /\ (ret.op = "hershey_text" /\ hershey_font) =>
          \A i \in 1..Len(HersheyPaths) :
             \A k \in Keys(default_styles) \ Keys(ret.attrs) :
                /\ k \in Keys(HersheyPaths[i].attrs)
                /\ Get(HersheyPaths[i].attrs, k) = Get(default_styles, k)

\* A further to_string() call in this state would return this text.
SecondCall == to_string(Self).out

\* C5: to_string() changes no builder state, so a second call right after
\* it returns the same text, also while groups are still open.
C5_ToStringPure ==
    /\ [][ret'.op = "to_string" =>
            UNCHANGED <<elements, heap, current_group, default_styles,
                        width, height, hershey_font>>]_vars
    /\ [](ret.op = "to_string" => SecondCall = ret.out)

\* to_string() was called on a non-empty tree with a group still open.
C5_Witness ==
    /\ ret.op = "to_string"
    /\ current_group # 0
    /\ heap[current_group].elements # <<>>

\* The tree in depth-first order: an element, or a group's opening tag, its
\* children, its closing tag.
RECURSIVE DepthFirst(_)
DepthFirst(items) ==
    IF items = <<>> THEN <<>>
    ELSE LET e == Head(items)
         IN (IF e.kind = "str"
             THEN <<[kind |-> "str", tag |-> e.tag, attrs |-> e.attrs,
                     content |-> e.content, inner |-> e.inner]>>
             ELSE <<[kind |-> "open", tag |-> "g",
                     attrs |-> heap[e.ref].attrs, content |-> <<>>,
                     inner |-> <<>>]>>
                  \o DepthFirst(heap[e.ref].elements)
                  \o <<[kind |-> "close", tag |-> "g", attrs |-> <<>>,
                        content |-> <<>>, inner |-> <<>>]>>)
            \o DepthFirst(Tail(items))

\* The markup of a text without its indentation and empty lines.
Markup(lines) ==
    LET body == SelectSeq(lines, LAMBDA l : l.kind # "blank")
    IN [i \in 1..Len(body) |->
          [kind |-> body[i].kind, tag |-> body[i].tag,
           attrs |-> body[i].attrs, content |-> body[i].content,
           inner |-> body[i].inner]]

\* C6: to_string() emits the XML prolog, the svg tag with width and height
\* in mm and viewBox "0 0 width height", then every element of the tree
\* exactly once in depth-first insertion order, a group's children between
\* its <g> and its </g>.
C6_DepthFirstOutput ==
    ret.op = "to_string" =>
        LET out == ret.out
            n == Len(out)
        IN /\ n >= 4
           /\ out[1].kind = "prolog" /\ out[1].indent = 0
           /\ out[2].kind = "svg"
           /\ Get(out[2].attrs, "width") = Nums("mm", <<width>>)
           /\ Get(out[2].attrs, "height") = Nums("mm", <<height>>)
           /\ Get(out[2].attrs, "viewBox") = Nums("", <<0, 0, width, height>>)
           /\ out[n].kind = "endsvg"
           /\ Markup(SubSeq(out, 3, n - 1)) = DepthFirst(elements)

\* A tree with an element inside a group inside a group was serialized.
C6_Witness ==
    /\ ret.op = "to_string"
    /\ \E g \in 1..Len(heap) : heap[g].parent # 0 /\ heap[g].elements # <<>>

\* The number of references to group g in a list.
RefCount(items, g) ==
    Cardinality({i \in 1..Len(items) :
                    items[i].kind = "group" /\ items[i].ref = g})

\* Following parent links from f reaches root within n steps.
RECURSIVE ReachesRoot(_, _)
ReachesRoot(f, n) ==
    \/ f = 0
    \/ n > 0 /\ ReachesRoot(heap[f].parent, n - 1)

\* Group g is found going down from the root list within n levels.
RECURSIVE Attached(_, _)
Attached(g, n) ==
    \/ RefCount(elements, g) > 0
    \/ n > 0 /\ \E p \in 1..Len(heap) :
                   RefCount(heap[p].elements, g) > 0 /\ Attached(p, n - 1)

\* C7: the element tree is well formed: every Group is referenced exactly
\* once, in the child list of its parent; parent links from the current
\* group reach root; the current group is reachable from the root list.
C7_TreeWellFormed ==
    /\ \A g \in 1..Len(heap) :
          /\ RefCount(Children(heap[g].parent), g) = 1
          /\ RefCount(elements, g)
             + SeqSum([p \in 1..Len(heap) |-> RefCount(heap[p].elements, g)])
             = 1
    /\ ReachesRoot(current_group, Len(heap))
    /\ current_group # 0 => Attached(current_group, Len(heap))

\* The current group is a group nested in another group.
C7_Witness ==
    /\ current_group # 0
    /\ heap[current_group].parent # 0

\* The layout hard-failure case, on the numbers add_schematic computed:
\* <<available_width, available_height, bbox width, bbox height>>.
HardFailure(dims) ==
    dims[1] <= 0 \/ dims[2] <= 0 \/ dims[3] <= 0 \/ dims[4] <= 0

\* C8: when the available width or height is <= 0, or the fragment's box
\* has width <= 0 or height <= 0, add_schematic divides by neither and
\* computes no scale, inserts no group and no fragment markup, appends
\* exactly one error-marker text to the current frame and leaves the
\* current-group pointer unchanged.
C8_HardFailureMarker ==
    [][(ret'.op = "add_schematic" /\ ~ret'.raised /\ HardFailure(ret'.dims)) =>
         /\ ~ret'.scale_computed
         /\ current_group' = current_group
         /\ AppendsOneTo(current_group)
         /\ LastChild(current_group)'.tag = "text"
         /\ LastChild(current_group)'.content = error_marker
         /\ Get(LastChild(current_group)'.attrs, "fill") = Txt("red")
         /\ LastChild(current_group)'.inner = <<>>]_vars

\* add_schematic found no room under a legend and marked the error inside
\* the group that was open.
C8_Witness ==
    /\ ret.op = "add_schematic"
    /\ ret.failed
    /\ ret.dims[2] <= 0 /\ ret.dims[3] > 0 /\ ret.dims[4] > 0
    /\ current_group # 0

\* C9: in the hard-failure case add_schematic surfaces the failure to its
\* caller as an error condition the caller can tell from a successful
\* placement (which returns the builder).
C9_FailureSurfaced ==
    (ret.op = "add_schematic" /\ ret.dims # <<>> /\ HardFailure(ret.dims)) =>
        (ret.raised \/ ret.value # "self")

\* The scale printed in the transform of the group the last add_schematic
\* inserted, in units of 0.0001.
PrintedScale == Get(heap[Len(heap)].attrs, "transform").n[3]

\* C10: whenever add_schematic inserts the schematic-content group, the
\* scale printed in its transform attribute is strictly greater than 0.
C10_PrintedScalePositive ==
    (ret.op = "add_schematic" /\ ~ret.raised /\ ~ret.failed) =>
        /\ HasId(heap[Len(heap)].attrs, "schematic-content")
        /\ PrintedScale > 0


(* ------------------------- scale and translation ----------------------- *)
Success == ret.op = "add_schematic" /\ ~ret.raised /\ ~ret.failed

RECURSIVE GCD(_, _)
GCD(a, b) == IF b = 0 THEN a ELSE GCD(b, a % b)
Reduced(p, q) == <<p \div GCD(p, q), q \div GCD(p, q)>>

\* scale / 0.85 in lowest terms
UnshrunkScale == Reduced(20 * ret.scale[1], 17 * ret.scale[2])

LeftMargin == ret.offset[1] + 2 * ret.bbox.min_x * ret.scale[1]
TopMargin == ret.offset[2] + 2 * ret.bbox.min_y * ret.scale[1]
\* (right - left) / 2 and (bottom - top) / 2
HalfRightLessLeft ==
    ret.dims[1] * ret.scale[2] - ret.offset[1]
    - (ret.bbox.min_x + ret.bbox.max_x) * ret.scale[1]
HalfBottomLessTop ==
    ret.dims[2] * ret.scale[2] - ret.offset[2]
    - (ret.bbox.min_y + ret.bbox.max_y) * ret.scale[1]

\* C12: after a successful add_schematic the scaled box is centred in the
\* available rectangle: left and right margins are equal, top and bottom
\* margins are equal, and none is negative.
C12_Centered ==
    Success =>
        /\ HalfRightLessLeft = 0
        /\ HalfBottomLessTop = 0
        /\ LeftMargin >= 0
        /\ TopMargin >= 0

\* a placed box that does not start at the origin, with room left around it
C12_Witness ==
    /\ Success
    /\ ret.bbox.min_x > 0
    /\ ret.bbox.min_y > 0
    /\ LeftMargin > 0
    /\ TopMargin > 0


\* No group of the page is a legend or titles group.
NoTitleOrLegend ==
    \A g \in 1..Len(heap) :
        ~HasId(heap[g].attrs, "legend") /\ ~HasId(heap[g].attrs, "titles")

\* the case of C13: a 279.4 x 431.8 page without title or legend, a fragment
\* whose box is 100 wide and 50 high
TabloidSample ==
    /\ ret.op = "add_schematic"
    /\ ~ret.raised
    /\ <<width, height>> = <<2794, 4318>>
    /\ border_inset = 100
    /\ NoTitleOrLegend
    /\ ret.bbox.width = 1000
    /\ ret.bbox.height = 500

\* C13: on a 279.4 x 431.8 page with inset 10 and neither title nor legend
\* (upper_boundary 0), the available rectangle for a fragment box 100 wide
\* and 50 high is 259.4 wide and 411.8 high.
C13_TabloidRoom ==
    TabloidSample =>
        /\ ret.upper = 0
        /\ ret.dims = <<2594, 4118, 1000, 500>>

\* C13, with the height the code computes: the available rectangle is 259.4
\* wide and 421.8 high (431.8 less the one inset at the bottom).
C13_TabloidRoomAmended ==
    TabloidSample =>
        /\ ret.upper = 0
        /\ ret.dims = <<2594, 4218, 1000, 500>>

C13_Witness == TabloidSample /\ Success /\ elements # <<>>


(* --------------------------- strokes and styles ------------------------ *)
\* The markup a successful add_schematic appended: the one string in the
\* schematic-content group.
SchematicGroup ==
    CHOOSE g \in 1..Len(heap) : HasId(heap[g].attrs, "schematic-content")
Inserted == heap[SchematicGroup].elements[1].inner

\* An attribute by its exact name, however it is quoted.
Carries(tag, name) == \E i \in 1..Len(tag.attrs) : tag.attrs[i][1] = name
ValueOf(tag, name) ==
    tag.attrs[CHOOSE i \in 1..Len(tag.attrs) : tag.attrs[i][1] = name][2]
Original(i) == ret.svg.inner[i]

\* C14: a path, rect, circle, ellipse, line, polyline or polygon of the
\* fragment that carries a stroke attribute is inserted with that stroke
\* attribute and its original value; the pen colour does not replace it.
C14_ExplicitStrokeKept ==
    Success =>
        \A i \in 1..Len(ret.svg.inner) :
            (Original(i).tag \in elements_with_strokes
             /\ Carries(Original(i), "stroke"))
            => /\ Len(Inserted) = Len(ret.svg.inner)
               /\ Carries(Inserted[i], "stroke")
               /\ ValueOf(Inserted[i], "stroke") = ValueOf(Original(i), "stroke")

\* C15: after a successful add_schematic every path, rect, circle, ellipse,
\* line, polyline and polygon tag of the inserted markup has no style
\* attribute and has a stroke attribute; where the original tag had no
\* stroke, it is the pen colour, with stroke-width 1.
C15_StrokesNormalized ==
    Success =>
        /\ Len(Inserted) = Len(ret.svg.inner)
        /\ \A i \in 1..Len(Inserted) :
              Inserted[i].tag \in elements_with_strokes
              => /\ ~Carries(Inserted[i], "style")
                 /\ Carries(Inserted[i], "stroke")
                 /\ ~Carries(Original(i), "stroke")
                    => /\ ValueOf(Inserted[i], "stroke") = Txt(ret.color)
                       /\ Carries(Inserted[i], "stroke-width")
                       /\ ValueOf(Inserted[i], "stroke-width") = Txt("1")


(* --------------------------- bounding boxes ---------------------------- *)
Measured == ret.op = "calculate_bounding_box"
Exactly(b, min_x, max_x, min_y, max_y) ==
    /\ ~b.raised
    /\ <<b.min_x, b.max_x, b.min_y, b.max_y>> = <<min_x, max_x, min_y, max_y>>
    /\ <<b.width, b.height>> = <<max_x - min_x, max_y - min_y>>
Covers(b, p) ==
    /\ ~b.raised
    /\ b.min_x <= p[1] /\ p[1] <= b.max_x
    /\ b.min_y <= p[2] /\ p[2] <= b.max_y

\* the fragment is one rect whose x, y, width, height are numbers, width
\* and height not negative
Numeric(tag, name) ==
    /\ Carries(tag, name)
    /\ Cardinality({i \in 1..Len(tag.attrs) : tag.attrs[i][1] = name}) = 1
    /\ parse_float(ValueOf(tag, name)).ok
NumberOf(tag, name) == parse_float(ValueOf(tag, name)).v
OnlyRect(svg) ==
    /\ svg.matched
    /\ Len(svg.inner) = 1
    /\ svg.inner[1].tag = "rect"
    /\ \A name \in {"x", "y", "width", "height"} : Numeric(svg.inner[1], name)
    /\ NumberOf(svg.inner[1], "width") >= 0
    /\ NumberOf(svg.inner[1], "height") >= 0

\* C16: for a fragment that holds only a rect with numeric x, y, width >= 0,
\* height >= 0, whatever other attributes the tag carries and in whatever
\* order, the box is exactly x .. x + width by y .. y + height.
C16_RectBoxExact ==
    (Measured /\ OnlyRect(ret.svg)) =>
        LET r == ret.svg.inner[1]
        IN Exactly(ret.bbox,
                   NumberOf(r, "x"), NumberOf(r, "x") + NumberOf(r, "width"),
                   NumberOf(r, "y"), NumberOf(r, "y") + NumberOf(r, "height"))

\* C17: a path command whose operands are missing, too few or unparseable
\* is skipped on its own: the box covers the points of every well-formed
\* command before it and after it, and nothing is raised.
C17_MalformedCommandSkipped ==
    Measured =>
        \A case \in PathCases :
            ret.svg = PathFragment(case.d)
            => \A p \in case.points : Covers(ret.bbox, p)

\* no tag of the fragment is an element the box is computed from
measured_tags ==
    {"rect", "circle", "ellipse", "line", "polyline", "polygon", "text", "path"}
NoElement(svg) ==
    \A i \in 1..Len(svg.inner) : svg.inner[i].tag \notin measured_tags

\* C18: when no element yields a coordinate the box is the viewBox
\* rectangle if the fragment declares a viewBox of four numbers, and all
\* zero otherwise; the empty string gives all zeros and raises nothing.
C18_ViewBoxFallback ==
    (Measured /\ NoElement(ret.svg)) =>
        LET n == ret.svg.viewBox.n
        IN IF ret.svg.matched /\ Len(n) = 4
           THEN Exactly(ret.bbox, n[1], n[1] + n[3], n[2], n[2] + n[4])
           ELSE Exactly(ret.bbox, 0, 0, 0, 0)

\* C19: the returned box has max_x >= min_x and max_y >= min_y, so width
\* and height are not negative, also when an element gave only an x and
\* when the viewBox stands in.
C19_BoxOrdered ==
    (Measured /\ ~ret.raised) =>
        /\ ret.bbox.max_x >= ret.bbox.min_x
        /\ ret.bbox.max_y >= ret.bbox.min_y
        /\ ret.bbox.width >= 0
        /\ ret.bbox.height >= 0

\* C20: calculate_bounding_box raises nothing, whatever the fragment.
C20_NeverRaises == Measured => ~ret.raised


(* ------------------------------ Hershey text --------------------------- *)
\* no character of the text has a stroke
NoStrokePoint(content) == \A i \in 1..Len(content) : content[i] = " "

\* C21: get_hershey_text_bounding_box returns the all-zero box and raises
\* nothing when the text yields no stroke point or the glyph backend is
\* missing; with the backend missing hershey_text adds nothing to the
\* document.
C21_EmptyGeometry ==
    /\ [][(ret'.op = "hershey_text" /\ ~hershey_font)
            => UNCHANGED <<elements, heap, current_group>>]_vars
    /\ []((/\ ret.op = "get_hershey_text_bounding_box"
           /\ (~hershey_font \/ NoStrokePoint(ret.content)))
          => ret.bbox = BBox(0, 0, 0, 0, FALSE))

\* measured without the backend, a text that has strokes
C21_Witness ==
    /\ ret.op = "get_hershey_text_bounding_box"
    /\ ~hershey_font
    /\ ~NoStrokePoint(ret.content)


(* ------------------------------- escaping ------------------------------ *)
Entity(c) ==
    CASE c = "&" -> <<"&", "a", "m", "p", ";">>
      [] c = "<" -> <<"&", "l", "t", ";">>
      [] c = ">" -> <<"&", "g", "t", ";">>
      [] c = "\"" -> <<"&", "q", "u", "o", "t", ";">>
      [] c = "'" -> <<"&", "a", "p", "o", "s", ";">>
      [] OTHER -> <<c>>

\* every character replaced by its entity, in one pass
RECURSIVE EscapedOnce(_)
EscapedOnce(content) ==
    IF content = <<>> THEN <<>>
    ELSE Entity(Head(content)) \o EscapedOnce(Tail(content))

\* an entity starts at position i of out
EntityAt(out, i) ==
    \E c \in {"&", "<", ">", "\"", "'"} :
        /\ i + Len(Entity(c)) - 1 <= Len(out)
        /\ SubSeq(out, i, i + Len(Entity(c)) - 1) = Entity(c)

NoRawSpecial(out) ==
    \A i \in 1..Len(out) :
        /\ out[i] \notin {"<", ">"}
        /\ out[i] = "&" => EntityAt(out, i)

\* a text or title was just written with a recorded content
Wrote == ret.op \in {"text", "title"} /\ ItemCount = 1

\* C22: text() and title() replace each &, <, >, " and ' of the content by
\* its entity exactly once; the & of a produced entity is not escaped again
\* and no raw &, < or > remains.
C22_EscapedOnce ==
    Wrote =>
        /\ LastChild(current_group).content = EscapedOnce(ret.content)
        /\ NoRawSpecial(LastChild(current_group).content)

\* a title whose content holds an ampersand and a quote
C22_Witness ==
    /\ Wrote
    /\ ret.op = "title"
    /\ ret.content = <<"&", "'">>
    /\ LastChild(current_group).tag = "title"


(* ------------------------------- Draw Time ----------------------------- *)
\* the numbers of a text, in order, and what is left without them
NumbersOf(s) == [i \in 1..Len(SelectSeq(s, LAMBDA a : a.c = "")) |-> SelectSeq(s, LAMBDA a : a.c = "")[i].v]
LettersOf(s) == [i \in 1..Len(s) |-> s[i].c]

\* C23: for a plot time of t seconds the Draw Time is "Hh Mm Ss" when
\* t >= 3600 and "Mm Ss" otherwise, with H*3600 + M*60 + S = floor(t),
\* 0 <= M < 60 and 0 <= S < 60.
C23_DrawTime ==
    ret.op = "container" =>
        LET t == ret.dims[1]
            n == NumbersOf(ret.content)
        IN IF t >= 36000
           THEN /\ LettersOf(ret.content) = <<"", "h", " ", "", "m", " ", "", "s">>
                /\ n[1] * 3600 + n[2] * 60 + n[3] = t \div 10
                /\ n[2] \in 0..59 /\ n[3] \in 0..59
           ELSE /\ LettersOf(ret.content) = <<"", "m", " ", "", "s">>
                /\ n[1] * 60 + n[2] = t \div 10
                /\ n[1] \in 0..59 /\ n[2] \in 0..59

\* 3665.9 seconds, drawn as 1h 1m 5s
C23_Witness ==
    /\ ret.op = "container"
    /\ ret.dims = <<36659>>
    /\ NumbersOf(ret.content) = <<1, 1, 5>>


(* ----------------------------- upper boundary -------------------------- *)
\* the line that closes the group opened just before line i
RECURSIVE CloseOf(_, _, _)
CloseOf(lines, i, depth) ==
    IF lines[i].kind = "close"
    THEN IF depth = 1 THEN i ELSE CloseOf(lines, i + 1, depth - 1)
    ELSE IF lines[i].kind = "open" THEN CloseOf(lines, i + 1, depth + 1)
    ELSE CloseOf(lines, i + 1, depth)

\* where a bottom edge b inside a group with these attributes lies outside
\* it: translate(x, y) scale(k) puts it at y + k * b
Translated(attrs, b) ==
    IF b = 0 \/ ~HasAttr(attrs, "transform") THEN b
    ELSE FirstAttr(attrs, "transform").n[2]
         + (FirstAttr(attrs, "transform").n[3] * b) \div 100

\* the bottom edge of one element
OwnBottom(l) ==
    IF ElementsBox(InfBox, LinesToTags(<<l>>)).hy
    THEN ElementsBox(InfBox, LinesToTags(<<l>>)).max_y
    ELSE 0

\* the bottom edge of all the content of a run of lines, nested groups at
\* their translated and scaled positions; 0 when nothing has an edge
RECURSIVE ContentBottom(_)
ContentBottom(lines) ==
    IF lines = <<>> THEN 0
    ELSE IF Head(lines).kind = "open"
    THEN Max(Translated(Head(lines).attrs,
                        ContentBottom(SubSeq(lines, 2, CloseOf(lines, 2, 1) - 1))),
             ContentBottom(SubSeq(lines, CloseOf(lines, 2, 1) + 1, Len(lines))))
    ELSE Max(OwnBottom(Head(lines)), ContentBottom(Tail(lines)))

\* the whole group with this id in the document, 0 when there is none
WholeGroupBottom(lines, id) ==
    IF \E i \in 1..Len(lines) : IsOpen(lines[i], id)
    THEN LET i == CHOOSE i \in 1..Len(lines) : IsOpen(lines[i], id)
         IN ContentBottom(SubSeq(lines, i + 1, CloseOf(lines, i + 1, 1) - 1))
    ELSE 0

Document == extract_parent_contents(to_string(Self).out)

\* add_schematic ran inside render_blueprint_svg and measured the page
Placing ==
    /\ ret.op = "render_blueprint_svg"
    /\ ret.content # <<>>
    /\ ~ret.raised

\* C24: upper_boundary is the larger of the bottom edge of the whole legend
\* group and of the whole titles group, 0 when neither exists, each bottom
\* edge being that of all the group's content, nested text groups at their
\* translated and scaled positions.
C24_UpperBoundary ==
    Placing =>
        ret.upper = Max(WholeGroupBottom(Document, "legend"),
                        WholeGroupBottom(Document, "titles"))


(* ------------------------------ the path walk -------------------------- *)
\* What SVG path data means, command by command, from the point (x, y).
Relative(cmd) == cmd.c \in {"m", "l", "h", "v", "c", "s", "q", "t", "a"}
Operand(cmd, k) == cmd.operands[k]
LastTwo(cmd) ==
    <<Operand(cmd, Len(cmd.operands) - 1), Operand(cmd, Len(cmd.operands))>>

EndPoint(cmd, x, y) ==
    CASE cmd.c = "H" -> <<Operand(cmd, 1), y>>
      [] cmd.c = "h" -> <<x + Operand(cmd, 1), y>>
      [] cmd.c = "V" -> <<x, Operand(cmd, 1)>>
      [] cmd.c = "v" -> <<x, y + Operand(cmd, 1)>>
      [] OTHER -> IF Relative(cmd)
                  THEN <<x + LastTwo(cmd)[1], y + LastTwo(cmd)[2]>>
                  ELSE LastTwo(cmd)

\* the control points of C, S and Q, offsets from (x, y) in the relative form
ControlPoints(cmd, x, y) ==
    LET n == IF cmd.c \in {"C", "c"} THEN 2
             ELSE IF cmd.c \in {"S", "s", "Q", "q"} THEN 1 ELSE 0
    IN {IF Relative(cmd)
        THEN <<x + Operand(cmd, 2 * k - 1), y + Operand(cmd, 2 * k)>>
        ELSE <<Operand(cmd, 2 * k - 1), Operand(cmd, 2 * k)>> : k \in 1..n}

RECURSIVE CurrentPoints(_, _, _)
CurrentPoints(commands, x, y) ==
    IF commands = <<>> THEN {}
    ELSE {EndPoint(Head(commands), x, y)}
         \cup CurrentPoints(Tail(commands), EndPoint(Head(commands), x, y)[1],
                            EndPoint(Head(commands), x, y)[2])

RECURSIVE AllControlPoints(_, _, _)
AllControlPoints(commands, x, y) ==
    IF commands = <<>> THEN {}
    ELSE ControlPoints(Head(commands), x, y)
         \cup AllControlPoints(Tail(commands), EndPoint(Head(commands), x, y)[1],
                               EndPoint(Head(commands), x, y)[2])

\* the box is the smallest one around these points
Hull(b, points) ==
    /\ \A p \in points : Covers(b, p)
    /\ \E p \in points : p[1] = b.min_x
    /\ \E p \in points : p[1] = b.max_x
    /\ \E p \in points : p[2] = b.min_y
    /\ \E p \in points : p[2] = b.max_y

Walked == ret.op = "calculate_bounding_box" /\ ret.content # <<>>
HasControls(commands) == AllControlPoints(commands, 0, 0) # {}

Turn == walk.phase = "walking" /\ walk'.n = walk.n + 1
\* the turn raised the TypeError that ends the walk of the path
Abandoned == ~walk.st.stop /\ walk'.st.stop

Compound == {"hershey_text", "hershey_text_with_bbox", "add_schematic"}

\* the groups this step created
Created == (Len(heap) + 1)..Len(heap')

\* C28: hershey_text, hershey_text_with_bbox and add_schematic leave the
\* current group as it was, on success and on every early return, and all
\* they add is inside the frame that was current when they were called:
\* no other frame changes, the current frame only grows at its end, and
\* every group created hangs below the current frame.
C28_FrameKept ==
    [][(ret'.op \in Compound /\ ~ret'.raised) =>
          /\ current_group' = current_group
          /\ Len(heap') >= Len(heap)
          /\ \A g \in 1..Len(heap) : g # current_group => heap'[g] = heap[g]
          /\ current_group # 0 => elements' = elements
          /\ Len(Children(current_group)') >= Len(Children(current_group))
          /\ SubSeq(Children(current_group)', 1, Len(Children(current_group)))
               = Children(current_group)
          /\ \A g \in Created :
                heap'[g].parent \in {current_group} \cup Created]_vars

\* hershey_text_with_bbox has drawn inside an open group and returned there
C28_Witness ==
    /\ ret.op = "hershey_text_with_bbox"
    /\ hershey_font
    /\ ret.pre # 0
    /\ current_group = ret.pre
    /\ Len(heap) > ret.pre
    /\ heap[Len(heap)].parent = ret.pre
    /\ heap[Len(heap)].elements # <<>>


(* --------------------------- the airport diagram ----------------------- *)
ContentBlock ==
    CHOOSE g \in 1..Len(heap) : HasId(heap[g].attrs, "content-block")

\* a raw markup string somewhere below group g
RECURSIVE HoldsMarkup(_)
HoldsMarkup(g) ==
    \E i \in 1..Len(heap[g].elements) :
        \/ heap[g].elements[i].kind = "str" /\ heap[g].elements[i].tag = "raw"
        \/ heap[g].elements[i].kind = "group" /\ HoldsMarkup(heap[g].elements[i].ref)

\* C29: render_airport_svg with a non-empty schematic returns, raising
\* nothing, a builder whose groups are all closed and whose content-block
\* group holds the schematic's stroke-processed inner markup.
C29_AirportRendered ==
    (ret.op = "render_airport_svg" /\ ret.content # <<>>) =>
        /\ ~ret.raised
        /\ current_group = 0
        /\ \E g \in 1..Len(heap) : HasId(heap[g].attrs, "content-block")
        /\ HoldsMarkup(ContentBlock)

(* ----------------------------- the worker ------------------------------ *)
Ran == ret.op = "schematic_vector_optimize"
Env == ret.attrs[1]
Produced == Env.download = "ok" /\ Env.tempfile = "ok" /\ Env.vpype = "document" /\ Env.output = "written"
Uploaded == Produced /\ Env.base_url = "set" /\ Env.upload = "ok"

\* C30: schematic_vector_optimize returns status 'completed' only when the
\* optimized SVG was produced and its upload succeeded, status 'error' on
\* every other run, and never raises.
C30_CompletedMeansUploaded ==
    Ran =>
        /\ ~ret.raised
        /\ ret.value = (IF Uploaded THEN "completed" ELSE "error")

====
